---- MODULE Spec2Model ----
(***************************************************************************)
(* Verification model of the audio-extraction service.                     *)
(*                                                                         *)
(* Part 1 models the validation pipeline of app/utils/file_validation.py   *)
(* (AudioFileValidator.validate_audio_file and its four stages) together   *)
(* with the media-type catalog of app/core/media_types.py.                 *)
(*                                                                         *)
(* One call of validate_audio_file is a run idle -> [get_size] -> basic -> *)
(* magic -> ffprobe -> done; every stage method is one action.  The        *)
(* behaviour of the collaborators (S3 client, Magika, the ffprobe process) *)
(* is chosen when the call starts and kept in env, so that a property can  *)
(* speak about what a collaborator would have answered even when the       *)
(* pipeline never asked it.                                                *)
(*                                                                         *)
(* Part 2 models the transcode processors of app/utils/ffmpeg_utils.py.    *)
(*                                                                         *)
(* Specifications: Spec (validate_audio_file under the default settings),  *)
(* SpecConfig (the same under any value of the validation switches),       *)
(* SpecStages (the probe stage methods called on their own) and SpecFFmpeg *)
(* (the transcode calls).                                                  *)
(*                                                                         *)
(* Python values: Optional[T] is <<>> (None) or <<v>>; a dict is a         *)
(* function on its keys; a MIME type "a/b" is the pair <<"a", "b">>; a     *)
(* float number of seconds is an integer number of tenths of a second; a   *)
(* confidence score is an integer number of thousandths.                   *)
(***************************************************************************)
EXTENDS Integers, Sequences, FiniteSets, TLC

VARIABLES
    pc,           \* position of the running validate_audio_file call
    magika,       \* AudioFileValidator.magika: "Magika" (the engine) or "None"
    object_key,   \* argument object_key
    object_size,  \* local object_size: Optional[int], the argument until looked up
    size_arg,     \* history: the object_size argument as passed
    env,          \* what the collaborators answer during this call
    result,       \* the ValidationResult of the call
    calls,        \* history: collaborator calls made by this call, in order
    stages,       \* history: stages run by this call, with their outcome
    raised,       \* TRUE iff validate_audio_file let an exception escape
    settings,     \* app.core.config.settings: the two validation switches
    ff_pc,        \* position of the transcode call: "idle", "done" or "blocked"
    ff_call,      \* the transcode call: processor, operation, input, format, time
    ff_env,       \* what ffmpeg and ffprobe do during the transcode call
    ff_result,    \* the FFmpegResult of the transcode call
    files,        \* the output files that exist in the temp directory
    invocations,  \* history: external processes started by the transcode call
    returns,     \* history: the transcode calls that returned, in order
    cleanup,      \* the files unlink cannot delete, and the cleanup calls made
    ev_pc,        \* position of the running process_events call
    batch,        \* event.Records of the process_events call
    processed_records, \* local list processed_records of process_events
    dispatched,   \* history: what the handlers of the batch did, per queue record
    response,     \* the EventProcessingResponse returned, or None
    ev_raised,    \* TRUE iff process_events let an exception escape
    ev_envs,      \* history: what the collaborators answered, per queue record
    fn_call,      \* the helper function called and its argument, or None
    fn_result     \* what the helper function returned, or None

valvars == <<pc, magika, object_key, object_size, size_arg, env, result, calls, stages, raised>>
ffvars == <<ff_pc, ff_call, ff_env, ff_result, files, invocations, returns, cleanup>>
evvars == <<ev_pc, batch, processed_records, dispatched, response, ev_raised, ev_envs>>
fnvars == <<fn_call, fn_result>>
vars == <<valvars, settings, ffvars, evvars, fnvars>>

None == <<>>
Some(v) == <<v>>

(***************************************************************************)
(* app/core/config.py                                                      *)
(***************************************************************************)
MAX_VIDEO_FILE_SIZE == 1000 * 1024 * 1024
MAX_AUDIO_DURATION == 24 * 60 * 60
FFPROBE_TIMEOUT == 30

(***************************************************************************)
(* String formatting used by the messages.                                 *)
(***************************************************************************)
\* three digits, zero padded: the groups of "{n:,}" and the fraction of "{x:.3f}"
Digits3(n) ==
    IF n < 10 THEN "00" \o ToString(n)
    ELSE IF n < 100 THEN "0" \o ToString(n)
    ELSE ToString(n)

\* f"{n:,}": decimal with a comma between groups of three digits
RECURSIVE FormatThousands(_)
FormatThousands(n) ==
    IF n < 0 THEN "-" \o FormatThousands(0 - n)
    ELSE IF n < 1000 THEN ToString(n)
    ELSE FormatThousands(n \div 1000) \o "," \o Digits3(n % 1000)

\* f"{score:.3f}" of a score held in thousandths
FormatScore(t) == ToString(t \div 1000) \o "." \o Digits3(t % 1000)

\* f"{duration:.1f}" of a duration held in tenths of a second
FormatTenths(d) ==
    IF d < 0 THEN "-" \o ToString((0 - d) \div 10) \o "." \o ToString((0 - d) % 10)
    ELSE ToString(d \div 10) \o "." \o ToString(d % 10)

(***************************************************************************)
(* app/core/media_types.py                                                 *)
(***************************************************************************)
_SUPPORTED_FORMATS ==
    ("mp4" :> ".mp4") @@ ("m4v" :> ".m4v") @@ ("avi" :> ".avi") @@
    ("mov" :> ".mov") @@ ("mkv" :> ".mkv") @@ ("webm" :> ".webm") @@
    ("wmv" :> ".wmv") @@ ("3gp" :> ".3gp")

\* str.lower() on the labels and format names the model uses
lower(s) ==
    CASE s = "MP3" -> "mp3"
      [] s = "WAV" -> "wav"
      [] s = "FLAC" -> "flac"
      [] s = "AAC" -> "aac"
      [] s = "OGG" -> "ogg"
      [] s = "M4A" -> "m4a"
      [] s = "WMA" -> "wma"
      [] s = "OPUS" -> "opus"
      [] s = "AIFF" -> "aiff"
      [] s = "AU" -> "au"
      [] s = "AMR" -> "amr"
      [] s = "MP4" -> "mp4"
      [] s = "M4V" -> "m4v"
      [] s = "AVI" -> "avi"
      [] s = "MOV" -> "mov"
      [] s = "MKV" -> "mkv"
      [] s = "WEBM" -> "webm"
      [] s = "WMV" -> "wmv"
      [] s = "3GP" -> "3gp"
      [] s = "Mp3" -> "mp3"
      [] s = "Mp4" -> "mp4"
      [] OTHER -> s

is_supported_format_AcceptAll(format_name) == TRUE

is_supported_format(format_name) == lower(format_name) \in DOMAIN _SUPPORTED_FORMATS

(***************************************************************************)
(* ValidationResult                                                        *)
(***************************************************************************)
ValidationResult ==
    [is_valid |-> FALSE, file_type |-> None, errors |-> <<>>,
     warnings |-> <<>>, metadata |-> <<>>]

add_error(r, message) == [r EXCEPT !.errors = Append(@, message)]

add_warning(r, message) == [r EXCEPT !.warnings = Append(@, message)]

\* d[k] = v on a dict
SetItem(d, k, v) == [x \in DOMAIN d \cup {k} |-> IF x = k THEN v ELSE d[x]]

set_metadata(r, k, v) == [r EXCEPT !.metadata = SetItem(@, k, v)]

(***************************************************************************)
(* The collaborators.  Each set lists the answers a collaborator can give. *)
(***************************************************************************)
\* s3_client.head_object: a response with ContentLength, a ClientError, or
\* any other exception (a response without ContentLength raises KeyError)
HeadOutcomes ==
    { [kind |-> "ok", ContentLength |-> 1024, exc |-> ""],
      [kind |-> "ok", ContentLength |-> 0, exc |-> ""],
      [kind |-> "ClientError", ContentLength |-> 0, exc |-> "An error occurred (NoSuchKey)"],
      [kind |-> "Exception", ContentLength |-> 0, exc |-> "'ContentLength'"] }

\* s3_client.get_object(Range="bytes=0-8192") followed by Body.read(): the
\* number of bytes read, or the exception raised and by which of the two calls
BodyOutcomes ==
    { [kind |-> "ok", len |-> 110, exc |-> ""],
      [kind |-> "ok", len |-> 2, exc |-> ""],
      [kind |-> "ClientError", len |-> 0, exc |-> "An error occurred (AccessDenied)"],
      [kind |-> "Exception", len |-> 0, exc |-> "connection reset"],
      [kind |-> "ReadError", len |-> 0, exc |-> "read timed out"] }

\* Magika.identify_bytes: the result object
MagikaResult(ok, status, label, description, mime_type, score, group, is_text) ==
    [ok |-> ok, status |-> status, label |-> label, description |-> description,
     mime_type |-> mime_type, score |-> score, group |-> group, is_text |-> is_text]

MagikaResults ==
    { MagikaResult(FALSE, "analysis_failed", "", "", <<"", "">>, 0, "", FALSE),
      MagikaResult(TRUE, "ok", "mp3", "MP3 audio", <<"audio", "mpeg">>, 980, "audio", FALSE),
      MagikaResult(TRUE, "ok", "mp4", "MP4 video", <<"video", "mp4">>, 990, "video", FALSE),
      MagikaResult(TRUE, "ok", "MOV", "QuickTime movie", <<"video", "quicktime">>, 900, "video", FALSE),
      MagikaResult(TRUE, "ok", "txt", "Text document", <<"text", "plain">>, 950, "text", TRUE),
      MagikaResult(TRUE, "ok", "png", "PNG image", <<"image", "png">>, 1000, "image", FALSE),
      MagikaResult(TRUE, "ok", "unknown_audio", "Unknown audio format",
                   <<"audio", "x-unknown">>, 850, "audio", FALSE) }

\* s3_client.generate_presigned_url: a URL, or an exception
PresignOutcomes ==
    { [kind |-> "ok", exc |-> ""],
      [kind |-> "Exception", exc |-> "Unable to locate credentials"] }

\* format.duration of the ffprobe JSON: absent, a string, a number (tenths),
\* or a non-empty JSON array or object
NoDuration == [t |-> "none", s |-> "", v |-> 0]
StrDuration(s) == [t |-> "str", s |-> s, v |-> 0]
NumDuration(v) == [t |-> "num", s |-> "", v |-> v]
ObjDuration == [t |-> "obj", s |-> "", v |-> 0]

\* The ffprobe process: whether communicate() outlives FFPROBE_TIMEOUT, its
\* return code, the message _extract_ffmpeg_error finds in its stderr, whether
\* its stdout is JSON, and the JSON's format and streams (codec_type of each)
ProbeOutcome(timeout, returncode, stderr_error, json_ok, duration, format_name, bit_rate, streams) ==
    [timeout |-> timeout, returncode |-> returncode, stderr_error |-> stderr_error,
     json_ok |-> json_ok, duration |-> duration, format_name |-> format_name,
     bit_rate |-> bit_rate, streams |-> streams]

ProbeOutcomes ==
    { ProbeOutcome(FALSE, 0, "", TRUE, StrDuration("180.5"), Some("mp3"), None, <<"audio">>),
      ProbeOutcome(FALSE, 0, "", TRUE, NoDuration, Some("mp3"), None, <<"audio">>),
      ProbeOutcome(FALSE, 1, "Error: Invalid file", FALSE, NoDuration, None, None, <<>>) }

Envs ==
    [head : HeadOutcomes, body : BodyOutcomes, close_raises : BOOLEAN,
     magika : MagikaResults, presign : PresignOutcomes, probe : ProbeOutcomes]

\* the arguments of the modelled calls
ObjectKeys == {"test.mp3", "clip.mp4"}
ObjectSizes ==
    {None, Some(0 - 1), Some(0), Some(1024), Some(MAX_VIDEO_FILE_SIZE),
     Some(MAX_VIDEO_FILE_SIZE + 1)}

(***************************************************************************)
(* AudioFileValidator: the stage methods.  Each operator yields the        *)
(* method's return value, the ValidationResult as the method leaves it,    *)
(* and the collaborator calls the method made.                             *)
(***************************************************************************)
\* the attributes an AudioFileValidator instance has: those set by __init__
\* and the methods of the class body
AudioFileValidatorAttributes ==
    {"s3_client", "magika", "validate_audio_file", "_get_object_size",
     "_validate_basic_properties", "_validate_magic_bytes",
     "_validate_with_ffprobe", "_validate_audio_metadata", "_extract_ffmpeg_error"}

_get_object_size(r, e) ==
    IF e.head.kind = "ok"
    THEN [size |-> Some(e.head.ContentLength), result |-> r,
          calls |-> <<"head_object">>]
    ELSE IF e.head.kind = "ClientError"
    THEN [size |-> None,
          result |-> add_error(r, "Failed to get object metadata: " \o e.head.exc),
          calls |-> <<"head_object">>]
    ELSE [size |-> None,
          result |-> add_error(r, "Unexpected error getting object size: " \o e.head.exc),
          calls |-> <<"head_object">>]

FileTooLargeMessage(size) ==
    "File too large: " \o FormatThousands(size) \o " bytes (max: "
        \o FormatThousands(MAX_VIDEO_FILE_SIZE) \o " bytes)"

_validate_basic_properties(size, r) ==
    IF size = 0
    THEN [ok |-> FALSE, result |-> add_error(r, "File is empty (0 bytes)")]
    ELSE IF size > MAX_VIDEO_FILE_SIZE
    THEN [ok |-> FALSE, result |-> add_error(r, FileTooLargeMessage(size))]
    ELSE [ok |-> TRUE, result |-> set_metadata(r, "file_size", size)]

NotSupportedMessage(m) ==
    "File content detected as '" \o m.description \o "' (" \o m.label
        \o ") which is not a supported audio/video format. Confidence: "
        \o FormatScore(m.score)

\* "if not magika_result.ok"
magika_failed_Never(m) == FALSE

magika_failed(m) == ~m.ok

\* the try block of _validate_magic_bytes with its two except clauses:
\* bound tells whether the local variable response was assigned
MagicBytesTry(r, e, mg) ==
    IF e.body.kind = "ClientError"
    THEN [ret |-> FALSE, bound |-> FALSE, calls |-> <<"get_object">>,
          result |-> add_error(r, "Failed to read file content from S3: " \o e.body.exc)]
    ELSE IF e.body.kind = "Exception"
    THEN [ret |-> FALSE, bound |-> FALSE, calls |-> <<"get_object">>,
          result |-> add_error(r, "Magika content validation error: " \o e.body.exc)]
    ELSE IF e.body.kind = "ReadError"
    THEN [ret |-> FALSE, bound |-> TRUE, calls |-> <<"get_object", "read">>,
          result |-> add_error(r, "Magika content validation error: " \o e.body.exc)]
    ELSE IF mg = "None"
    THEN \* None.identify_bytes raises AttributeError
         [ret |-> FALSE, bound |-> TRUE, calls |-> <<"get_object", "read">>,
          result |-> add_error(r, "Magika content validation error: "
                        \o "'NoneType' object has no attribute 'identify_bytes'")]
    ELSE LET m == e.magika
             cs == <<"get_object", "read", "identify_bytes">>
             r1 == set_metadata(r, "magika",
                       [label |-> m.label, description |-> m.description,
                        mime_type |-> m.mime_type, score |-> m.score,
                        group |-> m.group, is_text |-> m.is_text])
         IN  IF magika_failed(m)
             THEN [ret |-> FALSE, bound |-> TRUE, calls |-> cs,
                   result |-> add_error(r, "Magika analysis failed: " \o m.status)]
             ELSE IF ~is_supported_format(m.label)
             THEN [ret |-> FALSE, bound |-> TRUE, calls |-> cs,
                   result |-> add_error(r1, NotSupportedMessage(m))]
             ELSE [ret |-> TRUE, bound |-> TRUE, calls |-> cs,
                   result |-> set_metadata(
                                 set_metadata([r1 EXCEPT !.file_type = Some(m.label)],
                                              "detected_type", m.label),
                                 "mime_type", m.mime_type)]

\* _validate_magic_bytes: the try block, then the finally clause, which closes
\* the body when response was assigned; an exception of close() replaces the
\* return value (raises, with its text in exc)
_validate_magic_bytes(r, e, mg) ==
    LET t == MagicBytesTry(r, e, mg) IN
    IF ~t.bound
    THEN [ret |-> t.ret, raises |-> FALSE, exc |-> "", result |-> t.result,
          calls |-> t.calls]
    ELSE IF e.close_raises
    THEN [ret |-> FALSE, raises |-> TRUE, exc |-> "close failed",
          result |-> t.result, calls |-> Append(t.calls, "close")]
    ELSE [ret |-> t.ret, raises |-> FALSE, exc |-> "", result |-> t.result,
          calls |-> Append(t.calls, "close")]

\* float(x) of the duration strings the model uses, in tenths of a second;
\* None where float() raises ValueError
ParseFloat(s) ==
    CASE s = "180.5" -> Some(1805)
      [] s = "120.5" -> Some(1205)
      [] s = "0" -> Some(0)
      [] s = "-1.0" -> Some(0 - 10)
      [] s = "86400.0" -> Some(864000)
      [] s = "90000.0" -> Some(900000)
      [] OTHER -> None

\* bool(duration_str): None, "" and 0 are falsy
Truthy(d) == (d.t = "str" /\ d.s # "") \/ (d.t = "num" /\ d.v # 0) \/ d.t = "obj"

\* float(duration_str): None where it raises ValueError (a string that is no
\* number) or TypeError (an array or object)
ToFloat(d) ==
    IF d.t = "str" THEN ParseFloat(d.s)
    ELSE IF d.t = "num" THEN Some(d.v)
    ELSE None

IsAudio(codec_type) == codec_type = "audio"
IsVideo(codec_type) == codec_type = "video"

\* "elif duration > settings.MAX_AUDIO_DURATION", the duration in tenths
exceeds_max_duration_Never(duration) == FALSE

exceeds_max_duration(duration) == duration > MAX_AUDIO_DURATION * 10

\* the duration block of _validate_audio_metadata
ValidateDuration(p, r) ==
    IF ~Truthy(p.duration)
    THEN [ok |-> TRUE, result |-> add_warning(r, "Duration information not available")]
    ELSE LET f == ToFloat(p.duration) IN
         IF f = None
         THEN [ok |-> TRUE, result |-> add_warning(r, "Unable to parse audio duration")]
         ELSE LET r1 == set_metadata(r, "duration", f[1]) IN
              IF f[1] <= 0
              THEN [ok |-> FALSE, result |-> add_error(r1, "Invalid duration (<= 0 seconds)")]
              ELSE IF exceeds_max_duration(f[1])
              THEN [ok |-> TRUE,
                    result |-> add_warning(r1,
                        "Very long audio file: " \o FormatTenths(f[1])
                            \o "s (max recommended: " \o ToString(MAX_AUDIO_DURATION) \o "s)")]
              ELSE [ok |-> TRUE, result |-> r1]

\* "if not audio_streams and not video_streams"
no_streams_Never(audio_streams, video_streams) == FALSE

no_streams(audio_streams, video_streams) ==
    audio_streams = <<>> /\ video_streams = <<>>

\* "if not audio_streams and video_streams"
video_only_Never(audio_streams, video_streams) == FALSE

video_only(audio_streams, video_streams) ==
    audio_streams = <<>> /\ video_streams # <<>>

_validate_audio_metadata(p, r) ==
    LET audio_streams == SelectSeq(p.streams, IsAudio)
        video_streams == SelectSeq(p.streams, IsVideo)
    IN  IF no_streams(audio_streams, video_streams)
        THEN [ok |-> FALSE,
              result |-> add_error(r, "No audio or video streams found in file")]
        ELSE IF video_only(audio_streams, video_streams)
        THEN [ok |-> FALSE,
              result |-> add_error(r, "File contains video but no audio streams")]
        ELSE LET d == ValidateDuration(p, r) IN
             IF ~d.ok THEN d
             ELSE [ok |-> TRUE,
                   result |->
                     set_metadata(set_metadata(set_metadata(set_metadata(d.result,
                         "format_name", p.format_name),
                         "bit_rate", p.bit_rate),
                         "audio_stream_count", Len(audio_streams)),
                         "video_stream_count", Len(video_streams))]

\* the ffprobe JSON as stored under metadata["ffprobe"]
ProbeJson(p) ==
    [format |-> [duration |-> p.duration, format_name |-> p.format_name,
                 bit_rate |-> p.bit_rate],
     streams |-> p.streams]

_validate_with_ffprobe(r, e) ==
    IF e.presign.kind # "ok"
    THEN [ok |-> FALSE, calls |-> <<"generate_presigned_url">>,
          result |-> add_error(r, "FFprobe validation error: " \o e.presign.exc)]
    ELSE IF "_create_subprocess" \notin AudioFileValidatorAttributes
    THEN \* self._create_subprocess raises AttributeError
         [ok |-> FALSE, calls |-> <<"generate_presigned_url">>,
          result |-> add_error(r, "FFprobe validation error: "
              \o "'AudioFileValidator' object has no attribute '_create_subprocess'")]
    ELSE LET p == e.probe
             cs == <<"generate_presigned_url", "create_subprocess", "communicate">>
         IN  IF p.timeout
             THEN [ok |-> FALSE, calls |-> Append(cs, "kill"),
                   result |-> add_error(r, "FFprobe validation timed out after "
                                 \o ToString(FFPROBE_TIMEOUT) \o "s")]
             ELSE IF p.returncode # 0
             THEN [ok |-> FALSE, calls |-> cs,
                   result |-> add_error(r, "FFprobe validation failed: " \o p.stderr_error)]
             ELSE IF ~p.json_ok
             THEN [ok |-> FALSE, calls |-> cs,
                   result |-> add_error(r, "Failed to parse ffprobe output: "
                                 \o "Expecting value: line 1 column 1 (char 0)")]
             ELSE LET v == _validate_audio_metadata(p, set_metadata(r, "ffprobe", ProbeJson(p)))
                  IN  [ok |-> v.ok, calls |-> cs, result |-> v.result]

(***************************************************************************)
(* AudioFileValidator.validate_audio_file                                  *)
(***************************************************************************)
\* "if object_size is None": the size is looked up only when none was passed
size_lookup_needed_Always(size) == TRUE

size_lookup_needed(size) == size = None

\* "if not await self._validate_...(...): return result": the pipeline goes
\* on to the next stage only when the stage returned True
stage_passed_Ignored(ret) == TRUE

stage_passed(ret) == ret

\* "except Exception as e": the exception becomes an error of the result and
\* the result is returned
unexpected_error_Propagates(r, exc) == [result |-> r, raised |-> TRUE]

unexpected_error(r, exc) ==
    [result |-> add_error(r, "Unexpected validation error: " \o exc), raised |-> FALSE]

Stage(name, outcome) == [name |-> name, outcome |-> outcome]

\* the validator after construction, before any call
InitValidator ==
    /\ pc = "idle"
    /\ magika = "Magika"
    /\ object_key = ""
    /\ object_size = None
    /\ size_arg = None
    /\ env = CHOOSE e \in Envs : TRUE
    /\ result = ValidationResult
    /\ calls = <<>>
    /\ stages = <<>>
    /\ raised = FALSE

\* validator.magika = ...: the attribute is public and assigned by __init__;
\* the tests also set it to None
SetMagika ==
    /\ pc = "idle"
    /\ magika' = IF magika = "Magika" THEN "None" ELSE "Magika"
    /\ UNCHANGED <<pc, object_key, object_size, size_arg, env, result, calls, stages, raised>>
    /\ UNCHANGED <<settings, fnvars, ffvars, evvars>>

\* validate_audio_file is called: a fresh ValidationResult, then the size
\* lookup or, with a size passed, the first stage
ValidateAudioFile ==
    /\ pc = "idle"
    /\ \E k \in ObjectKeys, s \in ObjectSizes, e \in Envs :
        /\ object_key' = k
        /\ object_size' = s
        /\ size_arg' = s
        /\ env' = e
        /\ pc' = IF size_lookup_needed(s) THEN "get_size" ELSE "basic"
    /\ result' = ValidationResult
    /\ calls' = <<>>
    /\ stages' = <<>>
    /\ UNCHANGED <<magika, raised>>
    /\ UNCHANGED <<settings, fnvars, ffvars, evvars>>

GetObjectSize ==
    /\ pc = "get_size"
    /\ LET g == _get_object_size(result, env) IN
        /\ object_size' = g.size
        /\ result' = g.result
        /\ calls' = calls \o g.calls
        /\ stages' = Append(stages, Stage("size", IF g.size = None THEN "fail" ELSE "ok"))
        /\ pc' = IF g.size = None THEN "done" ELSE "basic"
    /\ UNCHANGED <<magika, object_key, size_arg, env, raised>>
    /\ UNCHANGED <<settings, fnvars, ffvars, evvars>>

ValidateBasicProperties ==
    /\ pc = "basic"
    /\ LET b == _validate_basic_properties(object_size[1], result) IN
        /\ result' = b.result
        /\ stages' = Append(stages, Stage("bounds", IF b.ok THEN "ok" ELSE "fail"))
        /\ pc' = IF stage_passed(b.ok) THEN "magic" ELSE "done"
    /\ UNCHANGED <<magika, object_key, object_size, size_arg, env, calls, raised>>
    /\ UNCHANGED <<settings, fnvars, ffvars, evvars>>

ValidateMagicBytes ==
    /\ pc = "magic"
    /\ LET m == _validate_magic_bytes(result, env, magika)
           h == unexpected_error(m.result, m.exc)
       IN
        /\ calls' = calls \o m.calls
        /\ stages' = Append(stages,
               Stage("sniff", IF m.raises THEN "raise" ELSE IF m.ret THEN "ok" ELSE "fail"))
        /\ result' = IF m.raises THEN h.result ELSE m.result
        /\ raised' = IF m.raises THEN h.raised ELSE raised
        /\ pc' = IF ~m.raises /\ stage_passed(m.ret) THEN "ffprobe" ELSE "done"
    /\ UNCHANGED <<magika, object_key, object_size, size_arg, env>>
    /\ UNCHANGED <<settings, fnvars, ffvars, evvars>>

\* the last stage and the end of validate_audio_file: is_valid becomes True
\* when the stage returned True
ValidateWithFfprobe ==
    /\ pc = "ffprobe"
    /\ LET f == _validate_with_ffprobe(result, env) IN
        /\ calls' = calls \o f.calls
        /\ stages' = Append(stages, Stage("probe", IF f.ok THEN "ok" ELSE "fail"))
        /\ result' = IF stage_passed(f.ok)
                     THEN [f.result EXCEPT !.is_valid = TRUE]
                     ELSE f.result
        /\ pc' = "done"
    /\ UNCHANGED <<magika, object_key, object_size, size_arg, env, raised>>
    /\ UNCHANGED <<settings, fnvars, ffvars, evvars>>

Next ==
    \/ SetMagika
    \/ ValidateAudioFile
    \/ GetObjectSize
    \/ ValidateBasicProperties
    \/ ValidateMagicBytes
    \/ ValidateWithFfprobe

(***************************************************************************)
(* app/core/config.py: the validation switches.  Settings is a pydantic    *)
(* BaseSettings, so each switch takes its value from the process           *)
(* environment or the .env file and is True by default.                    *)
(***************************************************************************)
DefaultSettings ==
    [ENABLE_MAGIC_BYTE_VALIDATION |-> TRUE, ENABLE_FFPROBE_VALIDATION |-> TRUE]

SettingsValues ==
    [ENABLE_MAGIC_BYTE_VALIDATION : BOOLEAN, ENABLE_FFPROBE_VALIDATION : BOOLEAN]

(***************************************************************************)
(* The probe stage and its metadata policy applied on their own, the way   *)
(* the unit tests call validator._validate_with_ffprobe(bucket, key,       *)
(* result) and validator._validate_audio_metadata(probe_data, result) on a *)
(* fresh ValidationResult.                                                 *)
(***************************************************************************)
\* codec_type of the streams of the probe result
StageStreams ==
    { <<>>, <<"subtitle">>, <<"audio">>, <<"video">>, <<"audio", "video">>,
      <<"video", "video">>, <<"audio", "audio">> }

StageDurations ==
    { NoDuration, ObjDuration, StrDuration(""), StrDuration("abc"),
      StrDuration("0"), StrDuration("-1.0"), StrDuration("180.5"),
      StrDuration("86400.0"), StrDuration("90000.0"),
      NumDuration(0), NumDuration(0 - 10), NumDuration(1205), NumDuration(900000) }

\* ffprobe outcomes: every stream list with every duration from a process
\* that exits 0 with JSON, and the three ways the process fails
StageProbes ==
    { ProbeOutcome(FALSE, 0, "", TRUE, d, Some("mp3"), Some("128000"), s) :
        d \in StageDurations, s \in StageStreams }
    \cup
    { ProbeOutcome(TRUE, 0, "", FALSE, NoDuration, None, None, <<>>),
      ProbeOutcome(FALSE, 1, "Error: Invalid file", FALSE, NoDuration, None, None, <<>>),
      ProbeOutcome(FALSE, 0, "", FALSE, NoDuration, None, None, <<>>) }

StageEnvs ==
    { [(CHOOSE e \in Envs : TRUE) EXCEPT !.presign = u, !.probe = p] :
        u \in PresignOutcomes, p \in StageProbes }

InitStage ==
    /\ pc = "stage"
    /\ magika = "Magika"
    /\ object_key = "test.mp3"
    /\ object_size = None
    /\ size_arg = None
    /\ env \in StageEnvs
    /\ result = ValidationResult
    /\ calls = <<>>
    /\ stages = <<>>
    /\ raised = FALSE

\* validator._validate_audio_metadata(probe_data, result)
CallValidateAudioMetadata ==
    /\ pc = "stage"
    /\ env.probe.json_ok
    /\ LET v == _validate_audio_metadata(env.probe, result) IN
        /\ result' = v.result
        /\ stages' = Append(stages, Stage("metadata", IF v.ok THEN "ok" ELSE "fail"))
    /\ pc' = "stage_done"
    /\ UNCHANGED <<magika, object_key, object_size, size_arg, env, calls, raised>>
    /\ UNCHANGED <<settings, fnvars, ffvars, evvars>>

\* validator._validate_with_ffprobe(bucket, key, result)
CallValidateWithFfprobe ==
    /\ pc = "stage"
    /\ LET f == _validate_with_ffprobe(result, env) IN
        /\ result' = f.result
        /\ calls' = calls \o f.calls
        /\ stages' = Append(stages, Stage("probe", IF f.ok THEN "ok" ELSE "fail"))
    /\ pc' = "stage_done"
    /\ UNCHANGED <<magika, object_key, object_size, size_arg, env, raised>>
    /\ UNCHANGED <<settings, fnvars, ffvars, evvars>>

NextStage ==
    \/ CallValidateAudioMetadata
    \/ CallValidateWithFfprobe

(***************************************************************************)
(* Part 2: app/utils/ffmpeg_utils.py, the transcode processors.            *)
(*                                                                         *)
(* One call of extract_audio or convert_audio_format is one action.  What  *)
(* ffmpeg and ffprobe do is chosen when the call starts and kept in        *)
(* ff_env.  A path in the temp directory is the record of the parts of its *)
(* file name.  A call that waits for ever for a process ends in ff_pc =    *)
(* "blocked"; a call that returns ends in "done".                          *)
(***************************************************************************)
FFMPEG_TIMEOUT == 300
\* the literal timeout of subprocess.run in the sync _extract_output_metadata
SYNC_METADATA_TIMEOUT == 30

FFmpegResult ==
    [success |-> FALSE, output_path |-> None, metadata |-> <<>>,
     error_message |-> None, processing_time |-> 0]

\* an external process: it exits with a return code, never exits ("hang"),
\* or cannot be started ("oserror"); writes tells whether it leaves an output
\* file behind (ffmpeg that exits 0 has written its output); elapsed is the
\* time it ran, in milliseconds; json_ok whether its stdout is JSON
ToolOutcome(kind, returncode, stderr_error, writes, json_ok) ==
    [kind |-> kind, returncode |-> returncode, stderr_error |-> stderr_error,
     writes |-> writes, json_ok |-> json_ok, elapsed |-> 1500]

FfmpegOutcomes ==
    { ToolOutcome("exit", 0, "", TRUE, FALSE),
      ToolOutcome("exit", 1, "Invalid data found when processing input", FALSE, FALSE),
      ToolOutcome("exit", 1, "Invalid data found when processing input", TRUE, FALSE),
      ToolOutcome("hang", 0, "", FALSE, FALSE),
      ToolOutcome("hang", 0, "", TRUE, FALSE),
      ToolOutcome("oserror", 0, "[Errno 2] No such file or directory: 'ffmpeg'", FALSE, FALSE) }

FfprobeOutcomes ==
    { ToolOutcome("exit", 0, "", FALSE, TRUE),
      ToolOutcome("exit", 0, "", FALSE, FALSE),
      ToolOutcome("exit", 1, "Invalid data found when processing input", FALSE, FALSE),
      ToolOutcome("hang", 0, "", FALSE, FALSE),
      ToolOutcome("oserror", 0, "[Errno 2] No such file or directory: 'ffprobe'", FALSE, FALSE) }

FFEnvs == [ffmpeg : FfmpegOutcomes, ffprobe : FfprobeOutcomes]

\* the arguments of the modelled calls and the clock readings, in milliseconds
InputPaths ==
    { [dir |-> "a", stem |-> "video", ext |-> "mp4"],
      [dir |-> "b", stem |-> "video", ext |-> "mp4"] }
OutputFormats == {"wav", "mp3"}
Times == {1000, 1001}

\* f"{input_file.stem}_{timestamp}.{output_format}" in temp_dir
_generate_output_path(input_path, output_format, now) ==
    [stem |-> input_path.stem, timestamp |-> now, ext |-> output_format]

\* waiting for a process with a timeout (subprocess.run(timeout=...),
\* asyncio.wait_for(process.communicate(), timeout=...)) or, with timeout
\* None, without one: how the wait ends, and the record of the invocation
wait_for_process(tool, o, timeout) ==
    [status |-> IF o.kind = "oserror" THEN "raise"
                ELSE IF o.kind = "exit" THEN "exit"
                ELSE IF timeout = None THEN "blocked"
                ELSE "timeout",
     invocation |-> [tool |-> tool, timeout |-> timeout]]

\* the files in the temp directory once ffmpeg has run
after_ffmpeg(fs, o, output_path) == IF o.writes THEN fs \cup {output_path} ELSE fs

\* a call's outcome: whether it returned, its result, the files, the processes
Outcome(returned, r, fs, inv) ==
    [returned |-> returned, result |-> r, files |-> fs, invocations |-> inv]

(***************************************************************************)
(* SyncFFmpegProcessor                                                     *)
(***************************************************************************)
\* subprocess.run(cmd, capture_output=True, text=True, timeout=FFMPEG_TIMEOUT)
_run_subprocess(o) == wait_for_process("ffmpeg", o, Some(FFMPEG_TIMEOUT))

\* the timeout argument of subprocess.run in _extract_output_metadata
sync_metadata_timeout_None == None

sync_metadata_timeout == Some(SYNC_METADATA_TIMEOUT)

\* the ffprobe JSON of an output file, as stored by the sync processor
SyncOutputMetadata ==
    [duration |-> "12.5", size |-> "2205044", bit_rate |-> "1411200",
     streams |-> <<"audio">>]

\* _extract_output_metadata without its "except Exception": the exception
\* reaches the caller's handler, which sets error_message
SyncFFmpegProcessor_extract_output_metadata_Raises(output_path, r, e) ==
    LET w == wait_for_process("ffprobe", e.ffprobe, sync_metadata_timeout) IN
    [blocked |-> w.status = "blocked",
     invocation |-> w.invocation,
     result |-> IF w.status = "exit" /\ e.ffprobe.returncode = 0 /\ e.ffprobe.json_ok
                THEN [r EXCEPT !.metadata = SyncOutputMetadata]
                ELSE IF w.status = "exit" /\ e.ffprobe.returncode # 0
                THEN r
                ELSE [r EXCEPT !.error_message =
                         Some("Unexpected error during sync audio extraction: "
                              \o e.ffprobe.stderr_error)]]

\* _extract_output_metadata: every exception (TimeoutExpired, OSError,
\* JSONDecodeError) is logged and swallowed
SyncFFmpegProcessor_extract_output_metadata(output_path, r, e) ==
    LET w == wait_for_process("ffprobe", e.ffprobe, sync_metadata_timeout) IN
    [blocked |-> w.status = "blocked",
     invocation |-> w.invocation,
     result |-> IF w.status = "exit" /\ e.ffprobe.returncode = 0 /\ e.ffprobe.json_ok
                THEN [r EXCEPT !.metadata = SyncOutputMetadata]
                ELSE r]

\* "if process_result.returncode == 0": the run succeeded
succeeded_Always(returncode) == TRUE

succeeded(returncode) == returncode = 0

\* the body shared by extract_audio and convert_audio_format, which differ in
\* the command line and in the texts of their messages
SyncFFmpegProcessor_transcode(call, e, fs, timed_out_message, unexpected_message) ==
    LET output_path == _generate_output_path(call.input_path, call.format, call.now)
        w == _run_subprocess(e.ffmpeg)
        fs1 == after_ffmpeg(fs, e.ffmpeg, output_path)
        r1 == [FFmpegResult EXCEPT !.processing_time = e.ffmpeg.elapsed]
    IN  IF w.status = "blocked"
        THEN Outcome(FALSE, FFmpegResult, fs1, <<w.invocation>>)
        ELSE IF w.status = "timeout"
        THEN \* except subprocess.TimeoutExpired: return result
             Outcome(TRUE,
                 [FFmpegResult EXCEPT !.error_message =
                     Some(timed_out_message \o ToString(FFMPEG_TIMEOUT) \o "s")],
                 fs1, <<w.invocation>>)
        ELSE IF w.status = "raise"
        THEN \* except Exception
             Outcome(TRUE,
                 [FFmpegResult EXCEPT !.error_message =
                     Some(unexpected_message \o e.ffmpeg.stderr_error)],
                 fs, <<w.invocation>>)
        ELSE IF succeeded(e.ffmpeg.returncode)
        THEN LET m == SyncFFmpegProcessor_extract_output_metadata(output_path,
                          [r1 EXCEPT !.success = TRUE, !.output_path = Some(output_path)], e)
             IN  Outcome(~m.blocked, m.result, fs1, <<w.invocation, m.invocation>>)
        ELSE \* the error of stderr, and the failed output file is removed
             Outcome(TRUE, [r1 EXCEPT !.error_message = Some(e.ffmpeg.stderr_error)],
                 fs1 \ {output_path}, <<w.invocation>>)

SyncFFmpegProcessor_extract_audio(call, e, fs) ==
    SyncFFmpegProcessor_transcode(call, e, fs, "FFmpeg processing timed out after ",
        "Unexpected error during sync audio extraction: ")

SyncFFmpegProcessor_convert_audio_format(call, e, fs) ==
    SyncFFmpegProcessor_transcode(call, e, fs, "Audio conversion timed out after ",
        "Unexpected error during sync audio conversion: ")

(***************************************************************************)
(* FFmpegProcessor (async)                                                 *)
(***************************************************************************)
\* async def _create_subprocess(self, cmd): the body is "pass", so the
\* coroutine returns None and no process is started
_create_subprocess(cmd) == None

\* the ffprobe JSON of an output file, as merged into metadata by the async
\* processor, with the size os.stat reports
AsyncOutputMetadata ==
    [format |-> [duration |-> "12.5", bit_rate |-> "1411200", size |-> "2205044"],
     streams |-> <<"audio">>, output_file_size |-> 2205044]

\* _extract_output_metadata: "await process.communicate()" has no timeout;
\* every exception is logged and swallowed
FFmpegProcessor_extract_output_metadata(output_path, r, e) ==
    IF _create_subprocess("ffprobe") = None
    THEN \* process.communicate raises AttributeError
         [blocked |-> FALSE, invocations |-> <<>>, result |-> r]
    ELSE LET w == wait_for_process("ffprobe", e.ffprobe, None) IN
         [blocked |-> w.status = "blocked",
          invocations |-> <<w.invocation>>,
          result |-> IF w.status = "exit" /\ e.ffprobe.returncode = 0 /\ e.ffprobe.json_ok
                     THEN [r EXCEPT !.metadata = AsyncOutputMetadata]
                     ELSE r]

FFmpegProcessor_transcode(call, e, fs, timed_out_message, unexpected_message) ==
    LET output_path == _generate_output_path(call.input_path, call.format, call.now)
        fs1 == after_ffmpeg(fs, e.ffmpeg, output_path)
        r1 == [FFmpegResult EXCEPT !.processing_time = e.ffmpeg.elapsed]
    IN  IF _create_subprocess("ffmpeg") = None
        THEN \* process.communicate raises AttributeError: except Exception
             Outcome(TRUE,
                 [FFmpegResult EXCEPT !.error_message =
                     Some(unexpected_message
                          \o "'NoneType' object has no attribute 'communicate'")],
                 fs, <<>>)
        ELSE LET w == wait_for_process("ffmpeg", e.ffmpeg, Some(FFMPEG_TIMEOUT)) IN
             IF w.status = "timeout"
             THEN \* except asyncio.TimeoutError: process.kill(); return result
                  Outcome(TRUE,
                      [FFmpegResult EXCEPT !.error_message =
                          Some(timed_out_message \o ToString(FFMPEG_TIMEOUT) \o "s")],
                      fs1, <<w.invocation>>)
             ELSE IF w.status = "raise"
             THEN Outcome(TRUE,
                      [FFmpegResult EXCEPT !.error_message =
                          Some(unexpected_message \o e.ffmpeg.stderr_error)],
                      fs, <<w.invocation>>)
             ELSE IF succeeded(e.ffmpeg.returncode)
             THEN LET m == FFmpegProcessor_extract_output_metadata(output_path,
                               [r1 EXCEPT !.success = TRUE, !.output_path = Some(output_path)], e)
                  IN  Outcome(~m.blocked, m.result, fs1, <<w.invocation>> \o m.invocations)
             ELSE Outcome(TRUE, [r1 EXCEPT !.error_message = Some(e.ffmpeg.stderr_error)],
                      fs1 \ {output_path}, <<w.invocation>>)

FFmpegProcessor_extract_audio(call, e, fs) ==
    FFmpegProcessor_transcode(call, e, fs, "FFmpeg processing timed out after ",
        "Unexpected error during audio extraction: ")

FFmpegProcessor_convert_audio_format(call, e, fs) ==
    FFmpegProcessor_transcode(call, e, fs, "Audio conversion timed out after ",
        "Unexpected error during audio conversion: ")

(***************************************************************************)
(* cleanup_file and cleanup_files of both processors                       *)
(***************************************************************************)
\* the empty string as a path
EmptyPath == [stem |-> "", timestamp |-> 0, ext |-> ""]

NoCleanup == [undeletable |-> {}, calls |-> <<>>]

\* os.unlink(file_path): it raises (PermissionError) for a file that cannot
\* be deleted and removes any other
unlink(fs, p, undeletable) ==
    [raises |-> p \in undeletable,
     files |-> IF p \in undeletable THEN fs ELSE fs \ {p}]

\* "except Exception as e: logger.warning(...)": the failure is logged and
\* the method returns
deletion_failure_Raises == [raised |-> TRUE, logged |-> FALSE]

deletion_failure == [raised |-> FALSE, logged |-> TRUE]

\* SyncFFmpegProcessor.cleanup_file: "if os.path.exists(file_path)"
SyncFFmpegProcessor_cleanup_file(fs, p, undeletable) ==
    IF p \in fs
    THEN LET u == unlink(fs, p, undeletable) IN
         IF u.raises
         THEN [files |-> fs, raised |-> deletion_failure.raised,
               warnings |-> IF deletion_failure.logged THEN <<p>> ELSE <<>>]
         ELSE [files |-> u.files, raised |-> FALSE, warnings |-> <<>>]
    ELSE [files |-> fs, raised |-> FALSE, warnings |-> <<>>]

\* FFmpegProcessor.cleanup_file: "if file_path and os.path.exists(file_path)"
FFmpegProcessor_cleanup_file(fs, p, undeletable) ==
    IF p # EmptyPath /\ p \in fs
    THEN LET u == unlink(fs, p, undeletable) IN
         IF u.raises
         THEN [files |-> fs, raised |-> deletion_failure.raised,
               warnings |-> IF deletion_failure.logged THEN <<p>> ELSE <<>>]
         ELSE [files |-> u.files, raised |-> FALSE, warnings |-> <<>>]
    ELSE [files |-> fs, raised |-> FALSE, warnings |-> <<>>]

cleanup_file(processor, fs, p, undeletable) ==
    IF processor = "sync"
    THEN SyncFFmpegProcessor_cleanup_file(fs, p, undeletable)
    ELSE FFmpegProcessor_cleanup_file(fs, p, undeletable)

\* cleanup_files: "for file_path in file_paths: cleanup_file(file_path)"; an
\* exception of cleanup_file would end the loop.  attempted lists the paths
\* handed to cleanup_file
RECURSIVE cleanup_files(_, _, _, _)
cleanup_files(processor, fs, file_paths, undeletable) ==
    IF file_paths = <<>>
    THEN [files |-> fs, raised |-> FALSE, warnings |-> <<>>, attempted |-> <<>>]
    ELSE LET one == cleanup_file(processor, fs, Head(file_paths), undeletable) IN
         IF one.raised
         THEN [files |-> one.files, raised |-> TRUE, warnings |-> one.warnings,
               attempted |-> <<Head(file_paths)>>]
         ELSE LET rest == cleanup_files(processor, one.files, Tail(file_paths), undeletable)
              IN  [files |-> rest.files, raised |-> rest.raised,
                   warnings |-> one.warnings \o rest.warnings,
                   attempted |-> <<Head(file_paths)>> \o rest.attempted]

\* the paths and path lists handed to the cleanup methods, and how many
\* cleanup calls one behaviour makes
CleanupPaths ==
    { _generate_output_path([dir |-> "a", stem |-> "video", ext |-> "mp4"], "wav", 1000),
      _generate_output_path([dir |-> "a", stem |-> "video", ext |-> "mp4"], "wav", 1001),
      _generate_output_path([dir |-> "a", stem |-> "video", ext |-> "mp4"], "mp3", 1000) }

CleanupLists ==
    { <<>> } \cup { <<p, q>> : p \in CleanupPaths, q \in CleanupPaths }

MaxCleanupCalls == 2

\* a cleanup call is made and recorded with the files before and after it
RecordCleanup(fn, processor, file_paths, r) ==
    /\ files' = r.files
    /\ cleanup' = [cleanup EXCEPT !.calls =
           Append(@, [fn |-> fn, processor |-> processor, paths |-> file_paths,
                      before |-> files, after |-> r.files, raised |-> r.raised,
                      warnings |-> r.warnings, attempted |-> r.attempted])]
    /\ UNCHANGED <<valvars, settings, fnvars, evvars>>
    /\ UNCHANGED <<ff_pc, ff_call, ff_env, ff_result, invocations, returns>>

CleanupFile ==
    /\ Len(cleanup.calls) < MaxCleanupCalls
    /\ \E processor \in {"sync", "async"}, p \in CleanupPaths \cup {EmptyPath} :
        LET r == cleanup_file(processor, files, p, cleanup.undeletable) IN
        RecordCleanup("cleanup_file", processor, <<p>>,
            [files |-> r.files, raised |-> r.raised, warnings |-> r.warnings,
             attempted |-> <<p>>])

CleanupFiles ==
    /\ Len(cleanup.calls) < MaxCleanupCalls
    /\ \E processor \in {"sync", "async"}, ps \in CleanupLists :
        RecordCleanup("cleanup_files", processor, ps,
            cleanup_files(processor, files, ps, cleanup.undeletable))

NextCleanup ==
    \/ CleanupFile
    \/ CleanupFiles

\* the processors after construction, before any call
InitFFmpeg ==
    /\ ff_pc = "idle"
    /\ ff_call = None
    /\ ff_env = CHOOSE e \in FFEnvs : TRUE
    /\ ff_result = FFmpegResult
    /\ files = {}
    /\ invocations = <<>>
    /\ returns = <<>>
    /\ cleanup = NoCleanup

Calls(processor, op) ==
    [processor : {processor}, op : {op}, input_path : InputPaths,
     format : OutputFormats, now : Times]

\* the call c ends with outcome o; the clock reading of a call is not
\* earlier than that of the call before it
Finish(c, e, o) ==
    /\ IF ff_call = None THEN TRUE ELSE c.now >= ff_call[1].now
    /\ ff_call' = Some(c)
    /\ ff_env' = e
    /\ ff_result' = o.result
    /\ files' = o.files
    /\ invocations' = o.invocations
    /\ ff_pc' = IF o.returned THEN "done" ELSE "blocked"
    /\ returns' = IF o.returned
                   THEN Append(returns,
                            [call |-> c, result |-> o.result,
                             path |-> _generate_output_path(c.input_path, c.format, c.now)])
                   ELSE returns
    /\ UNCHANGED <<valvars, settings, fnvars, cleanup, evvars>>

SyncExtractAudio ==
    /\ ff_pc = "idle"
    /\ \E c \in Calls("sync", "extract_audio"), e \in FFEnvs :
        Finish(c, e, SyncFFmpegProcessor_extract_audio(c, e, files))

SyncConvertAudioFormat ==
    /\ ff_pc = "idle"
    /\ \E c \in Calls("sync", "convert_audio_format"), e \in FFEnvs :
        Finish(c, e, SyncFFmpegProcessor_convert_audio_format(c, e, files))

ExtractAudio ==
    /\ ff_pc = "idle"
    /\ \E c \in Calls("async", "extract_audio"), e \in FFEnvs :
        Finish(c, e, FFmpegProcessor_extract_audio(c, e, files))

ConvertAudioFormat ==
    /\ ff_pc = "idle"
    /\ \E c \in Calls("async", "convert_audio_format"), e \in FFEnvs :
        Finish(c, e, FFmpegProcessor_convert_audio_format(c, e, files))

NextFFmpeg ==
    \/ SyncExtractAudio
    \/ SyncConvertAudioFormat
    \/ ExtractAudio
    \/ ConvertAudioFormat

\* Another invocation on the same temp_dir: a later call, or a concurrent
\* one of another worker.  The files stay.  Each invocation carries the
\* millisecond it read from the clock when it generated its output path;
\* invocations are taken in the order of their clock readings, and two
\* concurrent ones may have read the same millisecond.
MaxInvocations == 2

NextInvocation ==
    /\ ff_pc = "done"
    /\ Len(returns) < MaxInvocations
    /\ ff_pc' = "idle"
    /\ UNCHANGED <<ff_call, ff_env, ff_result, files, invocations, returns, cleanup>>
    /\ UNCHANGED <<valvars, settings, fnvars, evvars>>

NextInvocations ==
    \/ NextFFmpeg
    \/ NextInvocation

(***************************************************************************)
(* Part 3: app/services/event_processor.py, EventProcessorService.         *)
(*                                                                         *)
(* One call of process_events is a run idle -> loop -> done; every         *)
(* iteration of its loop is one action.  An object key is the sequence of  *)
(* its characters.                                                         *)
(***************************************************************************)
\* str.lower() of one character
lower_char(c) ==
    CASE c = "A" -> "a"
      [] c = "B" -> "b"
      [] c = "C" -> "c"
      [] c = "D" -> "d"
      [] c = "E" -> "e"
      [] c = "F" -> "f"
      [] c = "G" -> "g"
      [] c = "H" -> "h"
      [] c = "I" -> "i"
      [] c = "J" -> "j"
      [] c = "K" -> "k"
      [] c = "L" -> "l"
      [] c = "M" -> "m"
      [] c = "N" -> "n"
      [] c = "O" -> "o"
      [] c = "P" -> "p"
      [] c = "Q" -> "q"
      [] c = "R" -> "r"
      [] c = "S" -> "s"
      [] c = "T" -> "t"
      [] c = "U" -> "u"
      [] c = "V" -> "v"
      [] c = "W" -> "w"
      [] c = "X" -> "x"
      [] c = "Y" -> "y"
      [] c = "Z" -> "z"
      [] OTHER -> c

\* the characters of the extensions of _SUPPORTED_FORMATS
Chars(ext) ==
    CASE ext = ".mp4" -> <<".", "m", "p", "4">>
      [] ext = ".m4v" -> <<".", "m", "4", "v">>
      [] ext = ".avi" -> <<".", "a", "v", "i">>
      [] ext = ".mov" -> <<".", "m", "o", "v">>
      [] ext = ".mkv" -> <<".", "m", "k", "v">>
      [] ext = ".webm" -> <<".", "w", "e", "b", "m">>
      [] ext = ".wmv" -> <<".", "w", "m", "v">>
      [] ext = ".3gp" -> <<".", "3", "g", "p">>

\* MediaTypes.get_supported_format_names
get_supported_format_names == DOMAIN _SUPPORTED_FORMATS

\* MediaTypes.get_supported_extensions
get_supported_extensions == {_SUPPORTED_FORMATS[f] : f \in DOMAIN _SUPPORTED_FORMATS}

\* s.lower().endswith(suffix)
lower_endswith(s, suffix) ==
    /\ Len(s) >= Len(suffix)
    /\ \A i \in 1..Len(suffix) :
          lower_char(s[Len(s) - Len(suffix) + i]) = suffix[i]

\* MediaTypes.is_audio_file
MediaTypes_is_audio_file(key) ==
    \E ext \in get_supported_extensions : lower_endswith(key, Chars(ext))

\* the module-level is_audio_file: "return MediaTypes.is_audio_file(object_key)"
is_audio_file(key) == MediaTypes_is_audio_file(key)

\* S3EventTypes: the names handled as a creation and as a removal
CreatedEventNames_PutOnly == {"ObjectCreated:Put"}

CreatedEventNames ==
    {"ObjectCreated:Put", "ObjectCreated:Post", "ObjectCreated:Copy",
     "ObjectCreated:CompleteMultipartUpload"}

RemovedEventNames == {"ObjectRemoved:Delete", "ObjectRemoved:DeleteMarkerCreated"}

\* _cleanup_processed_files: the derivative formats, in order
processed_formats == <<"wav", "mp3", "flac">>

\* what the collaborators of the handlers answer for one queue record: the
\* verdict of validate_audio_file (a result with is_valid false or true, or an
\* exception), and the derivative formats whose delete_object call fails and
\* returns False.  The handlers are taken through all three validation
\* outcomes, although the validator of this repository only produces the
\* first.
ValidationOutcomes == {"invalid", "valid", "raises"}

DeleteFailures == { {}, {"wav"}, {"mp3"}, {"wav", "mp3", "flac"} }

HandlerEnvs == [validation : ValidationOutcomes, delete_fails : DeleteFailures]

LogEntry(act, s3_record, format, ok) ==
    [act |-> act, key |-> s3_record.key, eventName |-> s3_record.eventName,
     format |-> format, ok |-> ok]

\* "except Exception as e: logger.exception(...)" of the two handlers: an
\* exception inside a handler is logged and does not leave it
handler_exception_Propagates == [raised |-> TRUE]

handler_exception == [raised |-> FALSE]

\* _handle_audio_file_created: validate_audio_file is called; an invalid
\* verdict returns, a valid one logs the warnings, an exception is caught and
\* logged; the download and transcode steps are commented out
_handle_audio_file_created(s3_record, henv) ==
    [raises |-> henv.validation = "raises" /\ handler_exception.raised,
     log |-> <<LogEntry("validate_audio_file", s3_record, "",
                        henv.validation # "raises")>>]

\* S3FileManager.delete_object: True, or False when the deletion fails; both
\* except clauses return False and nothing is raised
delete_object_Raises(format_name, henv) ==
    [ok |-> format_name \notin henv.delete_fails,
     raises |-> format_name \in henv.delete_fails]

delete_object(format_name, henv) ==
    [ok |-> format_name \notin henv.delete_fails, raises |-> FALSE]

\* _cleanup_processed_files: delete_object for processed/<key>.<format> of
\* every format in turn; an exception would end the loop in the method's own
\* except clause
RECURSIVE _cleanup_processed_files(_, _, _)
_cleanup_processed_files(s3_record, formats, henv) ==
    IF formats = <<>> THEN <<>>
    ELSE LET d == delete_object(Head(formats), henv)
             entry == LogEntry("delete_object", s3_record, Head(formats), d.ok)
         IN  IF d.raises THEN <<entry>>
             ELSE <<entry>> \o _cleanup_processed_files(s3_record, Tail(formats), henv)

\* _handle_audio_file_deleted: the derivative cleanup, then the (empty)
\* metadata cleanup; neither raises
_handle_audio_file_deleted(s3_record, henv) ==
    [raises |-> FALSE,
     log |-> _cleanup_processed_files(s3_record, processed_formats, henv)]

\* _process_s3_record without the media-type filter
_process_s3_record_Unfiltered(s3_record, henv) ==
    IF s3_record.eventName \in CreatedEventNames
    THEN _handle_audio_file_created(s3_record, henv)
    ELSE IF s3_record.eventName \in RemovedEventNames
    THEN _handle_audio_file_deleted(s3_record, henv)
    ELSE [raises |-> FALSE, log |-> <<LogEntry("unhandled", s3_record, "", TRUE)>>]

\* _process_s3_record: the media-type filter, then the handler chosen by
\* the event name
_process_s3_record(s3_record, henv) ==
    IF is_audio_file(s3_record.key)
    THEN IF s3_record.eventName \in CreatedEventNames
         THEN _handle_audio_file_created(s3_record, henv)
         ELSE IF s3_record.eventName \in RemovedEventNames
         THEN _handle_audio_file_deleted(s3_record, henv)
         ELSE [raises |-> FALSE, log |-> <<LogEntry("unhandled", s3_record, "", TRUE)>>]
    ELSE [raises |-> FALSE, log |-> <<LogEntry("skip", s3_record, "", TRUE)>>]

\* "for s3_record in s3_event.Records: await self._process_s3_record(s3_record)":
\* an exception ends the loop
RECURSIVE process_s3_records(_, _)
process_s3_records(s3_records, henv) ==
    IF s3_records = <<>> THEN [raises |-> FALSE, log |-> <<>>]
    ELSE LET one == _process_s3_record(Head(s3_records), henv) IN
         IF one.raises THEN one
         ELSE LET rest == process_s3_records(Tail(s3_records), henv)
              IN  [raises |-> rest.raises, log |-> one.log \o rest.log]

ProcessedRecord(messageId, processed, body_length, source) ==
    [messageId |-> messageId, processed |-> processed,
     body_length |-> body_length, source |-> source]

\* _process_single_record: S3Event.model_validate_json(record.body) raises
\* for a body that is no storage-event notification, and the exception is
\* logged and raised again
_process_single_record(record, henv) ==
    IF ~record.body.parses
    THEN [raises |-> TRUE, dispatched |-> <<>>,
          record |-> ProcessedRecord("", FALSE, 0, "")]
    ELSE LET p == process_s3_records(record.body.Records, henv) IN
         [raises |-> p.raises, dispatched |-> p.log,
          record |-> ProcessedRecord(record.messageId, TRUE, record.body.len,
                                     record.eventSourceARN)]

\* "except Exception as e" of process_events: the failure becomes a failed
\* record entry and the loop goes on
record_failure_Raises(record) == [raised |-> TRUE, entries |-> <<>>]

record_failure(record) ==
    [raised |-> FALSE,
     entries |-> <<ProcessedRecord(record.messageId, FALSE, record.body.len,
                                   record.eventSourceARN)>>]

\* status="success"
response_status_ByOutcome(records) ==
    IF \E i \in DOMAIN records : ~records[i].processed THEN "error" ELSE "success"

response_status(records) == "success"

\* processed_count=len(processed_records)
processed_count_Successes(records) ==
    Cardinality({i \in DOMAIN records : records[i].processed})

processed_count(records) == Len(records)

EventProcessingResponse(records) ==
    [status |-> response_status(records),
     processed_count |-> processed_count(records),
     records |-> records]

\* object keys of the storage records: a supported container, an audio file
\* name (no entry of _SUPPORTED_FORMATS) and a text file
Keys ==
    { <<"a", ".", "m", "p", "4">>,
      <<"a", ".", "m", "p", "3">>,
      <<"a", ".", "t", "x", "t">> }

\* eventName is any string: names of S3EventTypes and two names that
\* S3EventTypes does not list
EventNames ==
    {"ObjectCreated:Put", "ObjectRemoved:Delete", "ObjectRestore:Completed",
     "ObjectCreated:Other", "ObjectRemoved:Other"}

S3EventRecord(eventName, key) == [eventName |-> eventName, key |-> key]

\* an SQS message body: its length, whether S3Event.model_validate_json
\* accepts it, and the storage records it then holds
Body(len, parses, Records) == [len |-> len, parses |-> parses, Records |-> Records]

\* "Test message body" (17 characters), "{}" (Records is required), a
\* notification with no records, and notifications with one or two records
Bodies ==
    { Body(17, FALSE, <<>>), Body(2, FALSE, <<>>), Body(15, TRUE, <<>>) }
    \cup { Body(400 + Len(k), TRUE, <<S3EventRecord(n, k)>>) :
              n \in EventNames, k \in Keys }
    \cup { Body(800, TRUE, <<S3EventRecord("ObjectCreated:Put", k),
                             S3EventRecord("ObjectRemoved:Delete", k)>>) :
              k \in {<<"a", ".", "m", "p", "4">>} }

EventSourceARNs == {"arn:aws:sqs:us-east-1:123456789012:test-queue"}

MessageIds == <<"test-message-id-1", "test-message-id-2", "test-message-id-3">>

SQSRecord(messageId, body, eventSourceARN) ==
    [messageId |-> messageId, body |-> body, eventSourceARN |-> eventSourceARN]

\* SQSEvent.Records: up to MaxRecords messages
MaxRecords == 3

SQSEvents ==
    UNION { { [i \in 1..n |-> SQSRecord(MessageIds[i], bodies[i], arn)] :
                bodies \in [1..n -> Bodies], arn \in EventSourceARNs } :
            n \in 0..MaxRecords }

(***************************************************************************)
(* Helper functions called on their own: fn_call is the call, fn_result    *)
(* what it returned.                                                       *)
(***************************************************************************)
\* the event names of S3EventTypes
S3EventTypes ==
    {"ObjectCreated:Put", "ObjectCreated:Post", "ObjectCreated:Copy",
     "ObjectCreated:CompleteMultipartUpload",
     "ObjectRemoved:Delete", "ObjectRemoved:DeleteMarkerCreated",
     "ObjectRestore:Post", "ObjectRestore:Completed", "ObjectRestore:Delete",
     "ReducedRedundancyLostObject",
     "Replication:OperationFailedReplication",
     "Replication:OperationMissedThreshold",
     "Replication:OperationReplicatedAfterThreshold",
     "Replication:OperationNotTracked",
     "s3:TestEvent"}

\* S3EventRecord.eventName is a str: any name can arrive
AnyEventNames == S3EventTypes \cup EventNames

FnCall(fn, arg) == [fn |-> fn, arg |-> arg]

\* a helper is called and returns; arguments and results are records
Returns(fn, arg, value) ==
    /\ fn_call = None
    /\ fn_call' = Some(FnCall(fn, arg))
    /\ fn_result' = Some(value)
    /\ UNCHANGED <<valvars, settings, ffvars, evvars>>

\* the object keys is_audio_file is called on: the edge cases of the tests
\* and one key for every extension named by the tests
AudioFileKeys ==
    { <<>>,
      <<"n", "o", "_", "e", "x", "t", "e", "n", "s", "i", "o", "n">>,
      <<".", "m", "p", "3">>,
      <<"f", "i", "l", "e", ".">>,
      <<"f", "i", "l", "e", ".", "m", "p", "3", ".", "b", "a", "c", "k", "u", "p">>,
      <<"a", "u", "d", "i", "o", ".", "m", "p", "3", "/", "f", "o", "l", "d", "e", "r">>,
      <<".", "m", "p", "4">>,
      <<"f", "i", "l", "e", ".", "m", "p", "4", ".", "b", "a", "c", "k", "u", "p">>,
      <<"v", "i", "d", "e", "o", ".", "m", "p", "4", "/", "f", "o", "l", "d", "e", "r">>,
      <<"v", "i", "d", "e", "o", ".", "m", "p", "4">>,
      <<"V", "I", "D", "E", "O", ".", "M", "P", "4">>,
      <<"M", "o", "v", "i", "e", ".", "M", "k", "V">>,
      <<"t", "e", "s", "t", ".", "p", "d", "f">>,
      <<"a", ".", "m", "p", "3">>,
      <<"a", ".", "w", "a", "v">>,
      <<"a", ".", "f", "l", "a", "c">>,
      <<"a", ".", "a", "a", "c">>,
      <<"a", ".", "o", "g", "g">>,
      <<"a", ".", "m", "4", "a">>,
      <<"a", ".", "w", "m", "a">>,
      <<"a", ".", "o", "p", "u", "s">>,
      <<"a", ".", "a", "i", "f", "f">>,
      <<"a", ".", "a", "u">>,
      <<"a", ".", "a", "m", "r">>,
      <<"a", ".", "m", "p", "4">>,
      <<"a", ".", "m", "4", "v">>,
      <<"a", ".", "a", "v", "i">>,
      <<"a", ".", "m", "o", "v">>,
      <<"a", ".", "m", "k", "v">>,
      <<"a", ".", "w", "e", "b", "m">>,
      <<"a", ".", "w", "m", "v">>,
      <<"a", ".", "3", "g", "p">> }

\* the format names is_supported_format is called on, in lower, upper and
\* mixed case
FormatNames ==
    { "mp3", "wav", "flac", "aac", "ogg", "m4a", "wma", "opus",
      "aiff", "au", "amr", "mp4", "m4v", "avi", "mov", "mkv",
      "webm", "wmv", "3gp", "MP3", "WAV", "FLAC", "AAC", "OGG",
      "M4A", "WMA", "OPUS", "AIFF", "AU", "AMR", "MP4", "M4V",
      "AVI", "MOV", "MKV", "WEBM", "WMV", "3GP", "Mp3", "Mp4",
      "pdf", "txt" }

\* is_audio_file on one key, by the class method and the module function
IsAudioFile ==
    \E k \in AudioFileKeys :
        Returns("is_audio_file", [object_key |-> k],
                [cls |-> MediaTypes_is_audio_file(k), fn |-> is_audio_file(k)])

\* MediaTypes.is_supported_format on one format name
IsSupportedFormat ==
    \E f \in FormatNames :
        Returns("is_supported_format", [format_name |-> f],
                [supported |-> is_supported_format(f)])

\* MediaTypes.get_supported_format_names, with the extension of each name
GetSupportedFormatNames ==
    Returns("get_supported_format_names", [cls |-> "MediaTypes"],
            [names |-> get_supported_format_names, extensions |-> _SUPPORTED_FORMATS])

\* _extract_ffmpeg_error of AudioFileValidator ("validator") and of
\* FFmpegProcessor ("async").  The diagnostic output is the sequence of its
\* lines, each already stripped; "" is a blank line.  Every line of the model
\* is shorter than 300 characters, so that line[:300] is the line.
error_keywords(cls) ==
    {"error", "invalid", "fail", "could not", "no such", "denied", "unsupported",
     "unable", "conversion failed", "not found", "permission denied"}
    \cup (IF cls = "validator" THEN {"can't open"} ELSE {"can't", "codec not found"})

\* the keywords of either list that occur in line.lower()
KeywordsIn(line) ==
    CASE line = "Error: Input file not found" -> {"error", "not found"}
      [] line = "Conversion FAILED!" -> {"fail", "conversion failed"}
      [] line = "can't seek" -> {"can't"}
      [] OTHER -> {}

\* line.startswith("[") and len(line) > 10
StartsWithBracket(line) == line = "[aac @ 0x55d] Qavg: 120.5"
LongerThanTen(line) == line \notin {"", "done", "can't seek"}

\* "stderr is empty": the text of no line, or of one blank line
IsEmptyText(lines) == lines = <<>> \/ lines = <<"">>

\* stderr_text.strip().splitlines(): blank lines at both ends are dropped
RECURSIVE lstrip_lines(_)
lstrip_lines(lines) ==
    IF lines # <<>> /\ Head(lines) = "" THEN lstrip_lines(Tail(lines)) ELSE lines

RECURSIVE rstrip_lines(_)
rstrip_lines(lines) ==
    IF lines # <<>> /\ lines[Len(lines)] = ""
    THEN rstrip_lines(SubSeq(lines, 1, Len(lines) - 1))
    ELSE lines

\* lines[-5:]
last_lines_All(lines) == lines

last_lines(lines) ==
    IF Len(lines) <= 5 THEN lines ELSE SubSeq(lines, Len(lines) - 4, Len(lines))

\* "for line in reversed(lines[-5:]): if any(keyword in line.lower() ...)"
RECURSIVE last_keyword_line(_, _)
last_keyword_line(cls, lines) ==
    IF lines = <<>> THEN None
    ELSE IF KeywordsIn(lines[Len(lines)]) \cap error_keywords(cls) # {}
    THEN Some(lines[Len(lines)])
    ELSE last_keyword_line(cls, SubSeq(lines, 1, Len(lines) - 1))

\* the fallback loops: the last non-empty line (validator), the last line
\* that is non-empty, does not start with "[" and is longer than 10 (async)
RECURSIVE fallback_line(_, _)
fallback_line(cls, lines) ==
    IF lines = <<>> THEN "Unknown FFmpeg error"
    ELSE LET line == lines[Len(lines)] IN
         IF /\ line # ""
            /\ cls = "async" => (~StartsWithBracket(line) /\ LongerThanTen(line))
         THEN line
         ELSE fallback_line(cls, SubSeq(lines, 1, Len(lines) - 1))

_extract_ffmpeg_error(cls, stderr_lines) ==
    IF IsEmptyText(stderr_lines)
    THEN "Unknown FFmpeg error (stderr is empty)"
    ELSE LET lines == rstrip_lines(lstrip_lines(stderr_lines)) IN
         IF lines = <<>>
         THEN "Unknown FFmpeg error (no stderr content)"
         ELSE LET k == last_keyword_line(cls, last_lines(lines)) IN
              IF k # None THEN k[1] ELSE fallback_line(cls, lines)

\* the diagnostic outputs: up to MaxLines lines
StderrLines ==
    {"Error: Input file not found", "Conversion FAILED!", "can't seek",
     "ffmpeg version 4.4.0", "[aac @ 0x55d] Qavg: 120.5", "done", ""}

MaxLines == 6

RECURSIVE TextsOf(_, _)
TextsOf(lines, n) ==
    IF n = 0 THEN {<<>>}
    ELSE LET shorter == TextsOf(lines, n - 1) IN
         shorter \cup {Append(t, line) : t \in shorter, line \in lines}

StderrTexts ==
    TextsOf(StderrLines \ {"Conversion FAILED!", "can't seek", "done"}, MaxLines)
    \cup TextsOf(StderrLines, 3)

ExtractFfmpegError ==
    \E cls \in {"validator", "async"}, t \in StderrTexts :
        Returns("_extract_ffmpeg_error", [cls |-> cls, stderr |-> t],
                [message |-> _extract_ffmpeg_error(cls, t)])

\* _process_s3_record on one storage record
ProcessS3Record ==
    \E n \in AnyEventNames, k \in Keys, henv \in HandlerEnvs :
        Returns("_process_s3_record",
                [s3_record |-> S3EventRecord(n, k), henv |-> henv],
                _process_s3_record(S3EventRecord(n, k), henv))

\* the answers of the collaborators that handling one queue record can
\* observe: a collaborator that is not called has the first answer
CallsHandler(record, names) ==
    /\ record.body.parses
    /\ \E i \in DOMAIN record.body.Records :
          /\ is_audio_file(record.body.Records[i].key)
          /\ record.body.Records[i].eventName \in names

HandlerEnvsOf(record) ==
    { henv \in HandlerEnvs :
        /\ ~CallsHandler(record, CreatedEventNames) => henv.validation = "invalid"
        /\ ~CallsHandler(record, RemovedEventNames) => henv.delete_fails = {} }

\* the service before the first batch
InitEvents ==
    /\ ev_pc = "idle"
    /\ batch = <<>>
    /\ processed_records = <<>>
    /\ dispatched = <<>>
    /\ response = None
    /\ ev_raised = FALSE
    /\ ev_envs = <<>>

\* no helper function has been called
InitFn ==
    /\ fn_call = None
    /\ fn_result = None

\* process_events is called: "processed_records = []"
ProcessEvents ==
    /\ ev_pc = "idle"
    /\ \E event \in SQSEvents : batch' = event
    /\ processed_records' = <<>>
    /\ dispatched' = <<>>
    /\ ev_envs' = <<>>
    /\ ev_pc' = "loop"
    /\ UNCHANGED <<response, ev_raised>>
    /\ UNCHANGED <<valvars, settings, fnvars, ffvars>>

\* one iteration of "for record in event.Records": the try block with
\* _process_single_record and its except clause
ProcessSingleRecord ==
    /\ ev_pc = "loop"
    /\ Len(processed_records) < Len(batch)
    /\ \E henv \in HandlerEnvsOf(batch[Len(processed_records) + 1]) :
       LET record == batch[Len(processed_records) + 1]
           r == _process_single_record(record, henv)
           f == record_failure(record)
       IN  /\ ev_envs' = Append(ev_envs, henv)
           /\ IF ~r.raises
               THEN /\ processed_records' = Append(processed_records, r.record)
                    /\ dispatched' = Append(dispatched, r.dispatched)
                    /\ UNCHANGED <<ev_pc, ev_raised>>
               ELSE IF f.raised
               THEN /\ ev_raised' = TRUE
                    /\ ev_pc' = "done"
                    /\ UNCHANGED <<processed_records, dispatched>>
               ELSE /\ processed_records' = processed_records \o f.entries
                    /\ dispatched' = Append(dispatched, r.dispatched)
                    /\ UNCHANGED <<ev_pc, ev_raised>>
    /\ UNCHANGED <<batch, response>>
    /\ UNCHANGED <<valvars, settings, fnvars, ffvars>>

\* "return EventProcessingResponse(...)" after the loop
Return ==
    /\ ev_pc = "loop"
    /\ Len(processed_records) = Len(batch)
    /\ response' = Some(EventProcessingResponse(processed_records))
    /\ ev_pc' = "done"
    /\ UNCHANGED <<batch, processed_records, dispatched, ev_raised, ev_envs>>
    /\ UNCHANGED <<valvars, settings, fnvars, ffvars>>

NextEvents ==
    \/ ProcessEvents
    \/ ProcessSingleRecord
    \/ Return

(***************************************************************************)
(* Specifications                                                          *)
(***************************************************************************)
Init ==
    /\ InitValidator
    /\ settings = DefaultSettings
    /\ InitFFmpeg
    /\ InitEvents
    /\ InitFn

\* calls of validate_audio_file under the default settings
Spec == Init /\ [][Next]_vars

\* calls of validate_audio_file under any value of the validation switches
InitConfig ==
    /\ InitValidator
    /\ settings \in SettingsValues
    /\ InitFFmpeg
    /\ InitEvents
    /\ InitFn

SpecConfig == InitConfig /\ [][Next]_vars

\* the probe stage and its metadata policy called on their own
InitStages ==
    /\ InitStage
    /\ settings = DefaultSettings
    /\ InitFFmpeg
    /\ InitEvents
    /\ InitFn

SpecStages == InitStages /\ [][NextStage]_vars

\* calls of the transcode processors
SpecFFmpeg == Init /\ [][NextFFmpeg]_vars

\* calls of the transcode processors one after another
SpecInvocations == Init /\ [][NextInvocations]_vars

\* calls of cleanup_file and cleanup_files on any set of existing files, some
\* of which cannot be deleted
InitCleanup ==
    /\ InitValidator
    /\ settings = DefaultSettings
    /\ InitEvents
    /\ InitFn
    /\ ff_pc = "idle"
    /\ ff_call = None
    /\ ff_env = CHOOSE e \in FFEnvs : TRUE
    /\ ff_result = FFmpegResult
    /\ invocations = <<>>
    /\ returns = <<>>
    /\ files \in SUBSET CleanupPaths
    /\ \E u \in SUBSET files : cleanup = [undeletable |-> u, calls |-> <<>>]

SpecCleanup == InitCleanup /\ [][NextCleanup]_vars

\* batches of queue messages handed to process_events
SpecEvents == Init /\ [][NextEvents]_vars

\* the helper functions called on their own
NextFn ==
    \/ ProcessS3Record
    \/ IsAudioFile
    \/ IsSupportedFormat
    \/ GetSupportedFormatNames
    \/ ExtractFfmpegError

SpecFn == Init /\ [][NextFn]_vars

(***************************************************************************)
(* Properties of the validation pipeline.                                  *)
(***************************************************************************)
Ran(name) == \E i \in DOMAIN stages : stages[i].name = name
OutcomeOf(name) == (CHOOSE i \in DOMAIN stages : stages[i].name = name)
Passed(name) == Ran(name) /\ stages[OutcomeOf(name)].outcome = "ok"
Failed(name) == Ran(name) /\ stages[OutcomeOf(name)].outcome # "ok"
Called(c) == \E i \in DOMAIN calls : calls[i] = c
CountCalls(c) == Cardinality({i \in DOMAIN calls : calls[i] = c})
HasError(msg) == \E i \in DOMAIN result.errors : result.errors[i] = msg
HasMetadata(k) == k \in DOMAIN result.metadata

\* the order of the stages, and what each stage may call and may record
PipelineOrder == <<"size", "bounds", "sniff", "probe">>

CallsOfStage(name) ==
    CASE name = "size" -> {"head_object"}
      [] name = "bounds" -> {}
      [] name = "sniff" -> {"get_object", "read", "identify_bytes", "close"}
      [] name = "probe" -> {"generate_presigned_url", "create_subprocess",
                            "communicate", "kill"}

MetadataOfStage(name) ==
    CASE name = "size" -> {}
      [] name = "bounds" -> {"file_size"}
      [] name = "sniff" -> {"magika", "detected_type", "mime_type"}
      [] name = "probe" -> {"ffprobe", "duration", "format_name", "bit_rate",
                            "audio_stream_count", "video_stream_count"}

\* The probe stage cannot pass: AudioFileValidator has no _create_subprocess
\* (file_validation.py:228 calls it, the class does not define it), so the
\* stage ends in its "except Exception" and is_valid is never set.  C1 (a
\* returned result with is_valid = true has no errors) therefore has no
\* reachable instance and is left unsettled.
ProbeStageNeverPasses == ~Passed("probe") /\ ~result.is_valid

\* C2: the stages of one call run in the order size, bounds, sniff, probe (the
\* size lookup only when no size was passed); a stage runs only after every
\* earlier stage succeeded; once a stage has failed the call is over with
\* is_valid = false, and only the stages that ran have made collaborator
\* calls or added metadata or file_type.
C2_StagesInOrderAndShortCircuit ==
    /\ \E start \in {0, 1} :
          /\ Len(stages) + start <= Len(PipelineOrder)
          /\ \A i \in DOMAIN stages : stages[i].name = PipelineOrder[i + start]
    /\ \A i \in DOMAIN stages : i < Len(stages) => stages[i].outcome = "ok"
    /\ (stages # <<>> /\ stages[Len(stages)].outcome # "ok")
          => pc = "done" /\ ~result.is_valid
    /\ \A i \in DOMAIN calls :
          \E j \in DOMAIN stages : calls[i] \in CallsOfStage(stages[j].name)
    /\ \A k \in DOMAIN result.metadata :
          \E j \in DOMAIN stages : k \in MetadataOfStage(stages[j].name)
    /\ result.file_type # None => Ran("sniff")

\* C2 witness: the bounds check passed, the content sniff failed, and the call
\* ended without the probe stage, a presigned URL or probe metadata.
C2_Witness ==
    /\ pc = "done"
    /\ Len(stages) = 2
    /\ stages[1] = Stage("bounds", "ok")
    /\ stages[2] = Stage("sniff", "fail")
    /\ ~result.is_valid
    /\ ~Called("generate_presigned_url")
    /\ HasMetadata("file_size")

\* C3: validate_audio_file never lets an exception escape; a stage that fails
\* or raises leaves an entry in errors (an exception raised out of a stage
\* leaves the "Unexpected validation error" entry), and the call then ends
\* with is_valid = false.
C3_NeverRaises ==
    /\ ~raised
    /\ \A i \in DOMAIN stages :
          /\ stages[i].outcome # "ok" => result.errors # <<>>
          /\ stages[i].outcome = "raise"
                => HasError("Unexpected validation error: close failed")
    /\ (pc = "done" /\ \E i \in DOMAIN stages : stages[i].outcome # "ok")
          => ~result.is_valid /\ result.errors # <<>>

\* C3 witness: an exception left the sniff stage (close() raised in its
\* finally clause) and the call returned a result carrying it as an error.
C3_Witness ==
    /\ pc = "done"
    /\ Failed("sniff")
    /\ stages[OutcomeOf("sniff")].outcome = "raise"
    /\ HasError("Unexpected validation error: close failed")
    /\ ~result.is_valid
    /\ ~raised

\* the scenario of C4: key "test.mp3", size 1024 (passed or looked up), the
\* sniff reads the body and answers mp3 / audio/mpeg, the presigned URL is
\* made, and the probe exits 0 with one audio stream and duration "180.5"
C4_Scenario ==
    /\ pc = "done"
    /\ object_key = "test.mp3"
    /\ object_size = Some(1024)
    /\ magika = "Magika"
    /\ env.body.kind = "ok" /\ env.body.len = 110 /\ ~env.close_raises
    /\ env.magika.ok /\ env.magika.label = "mp3"
    /\ env.magika.mime_type = <<"audio", "mpeg">>
    /\ env.presign.kind = "ok"
    /\ ~env.probe.timeout /\ env.probe.returncode = 0 /\ env.probe.json_ok
    /\ env.probe.streams = <<"audio">>
    /\ env.probe.duration = StrDuration("180.5")

\* C4: in that scenario validate_audio_file returns is_valid = true with no
\* errors, file_type "mp3", metadata file_size 1024 and duration 180.5.
C4_FullSuccess ==
    C4_Scenario =>
        /\ result.is_valid
        /\ result.errors = <<>>
        /\ result.file_type = Some("mp3")
        /\ HasMetadata("file_size") /\ result.metadata["file_size"] = 1024
        /\ HasMetadata("duration") /\ result.metadata["duration"] = 1805

\* C5: the bounds check passes exactly for 0 < s <= MAX_VIDEO_FILE_SIZE; when
\* it fails it records one error, and file_size is in the metadata exactly
\* when it passed.
C5_BoundsCheck ==
    Ran("bounds") =>
        LET s == object_size[1] IN
        /\ Passed("bounds") <=> (0 < s /\ s <= MAX_VIDEO_FILE_SIZE)
        /\ Failed("bounds") =>
              \/ result.errors = <<"File is empty (0 bytes)">> /\ s = 0
              \/ result.errors = <<FileTooLargeMessage(s)>> /\ s > MAX_VIDEO_FILE_SIZE
        /\ HasMetadata("file_size") <=> Passed("bounds")
        /\ HasMetadata("file_size") => result.metadata["file_size"] = s

\* C6: without a size argument the size is fetched from storage exactly once
\* and before anything else; when the fetch fails the call ends with
\* is_valid = false, that one error and no other stage; with a size argument
\* head_object is never called.
C6_SizeLookup ==
    /\ CountCalls("head_object") <= 1
    /\ Called("head_object") => calls[1] = "head_object" /\ stages[1].name = "size"
    /\ (size_arg = None /\ pc \notin {"idle", "get_size"}) => CountCalls("head_object") = 1
    /\ size_arg # None => ~Called("head_object") /\ ~Ran("size")
    /\ Failed("size") =>
          /\ pc = "done"
          /\ ~result.is_valid
          /\ result.errors \in
                { <<"Failed to get object metadata: " \o env.head.exc>>,
                  <<"Unexpected error getting object size: " \o env.head.exc>> }
          /\ stages = <<Stage("size", "fail")>>
          /\ calls = <<"head_object">>
          /\ result.metadata = <<>>

\* C6 witness: no size was passed, head_object failed with a ClientError and
\* the call ended after that single stage.
C6_Witness ==
    /\ pc = "done"
    /\ size_arg = None
    /\ env.head.kind = "ClientError"
    /\ stages = <<Stage("size", "fail")>>
    /\ calls = <<"head_object">>
    /\ Len(result.errors) = 1
    /\ ~result.is_valid

\* the formats the specification's catalog names (audio and video)
ClaimedFormats ==
    {"mp3", "wav", "flac", "aac", "ogg", "m4a", "wma", "opus", "aiff", "au", "amr",
     "mp4", "m4v", "avi", "mov", "mkv", "webm", "wmv", "3gp"}

\* the fallback heuristic of the specification: the MIME type begins with
\* "audio/" or "video/", or the label contains audio, video, media or sound
AudioVideoLike(m) ==
    \/ m.mime_type[1] \in {"audio", "video"}
    \/ m.label \in {"unknown_audio"}

\* the size the bounds check saw was within bounds
SizeWithinBounds ==
    object_size # None /\ 0 < object_size[1] /\ object_size[1] <= MAX_VIDEO_FILE_SIZE

\* the engine was asked and answered with an OK result
Sniffed == Ran("sniff") /\ Called("identify_bytes") /\ env.magika.ok

C8_HeuristicAcceptance ==
    (Sniffed /\ SizeWithinBounds /\ ~env.close_raises) =>
        /\ (/\ ~is_supported_format(env.magika.label)
            /\ lower(env.magika.label) \notin ClaimedFormats
            /\ AudioVideoLike(env.magika))
              => Passed("sniff") /\ result.warnings # <<>>
        /\ is_supported_format(env.magika.label)
              => Passed("sniff") /\ result.warnings = <<>>

\* C9: with the engine absent (magika is None) the sniff stage is skipped: it
\* succeeds, adds no error, records a warning, and the probe stage follows.
C9_SniffSkippedWithoutEngine ==
    (/\ Ran("sniff") /\ SizeWithinBounds
     /\ magika = "None" /\ env.body.kind = "ok" /\ ~env.close_raises) =>
        /\ Passed("sniff")
        /\ result.errors = <<>> \/ Ran("probe")
        /\ result.warnings # <<>>
        /\ pc = "ffprobe" \/ Ran("probe")

\* C10: a content buffer of 2 bytes is not handed to the engine: the sniff
\* stage fails with "File too small for content analysis".
C10_TooSmallRejected ==
    (/\ Ran("sniff") /\ SizeWithinBounds
     /\ magika = "Magika" /\ env.body.kind = "ok" /\ env.body.len = 2
     /\ env.magika.ok) =>
        /\ Failed("sniff")
        /\ HasError("File too small for content analysis")
        /\ ~Called("identify_bytes")

(***************************************************************************)
(* Properties of the validation switches (C11).                            *)
(***************************************************************************)
StageSkipped(name) ==
    /\ ~Ran(name)
    /\ \A c \in CallsOfStage(name) : ~Called(c)
    /\ \A k \in MetadataOfStage(name) : ~HasMetadata(k)

\* C11: a stage switched off by its setting is skipped: it does not run, makes
\* no storage or subprocess call and records neither file_type nor metadata;
\* with both stages off and a size within the bounds the call returns
\* is_valid = true.
C11_DisabledStagesSkipped ==
    (pc = "done" /\ SizeWithinBounds) =>
        /\ ~settings.ENABLE_MAGIC_BYTE_VALIDATION =>
              StageSkipped("sniff") /\ result.file_type = None
        /\ ~settings.ENABLE_FFPROBE_VALIDATION => StageSkipped("probe")
        /\ (~settings.ENABLE_MAGIC_BYTE_VALIDATION /\ ~settings.ENABLE_FFPROBE_VALIDATION)
              => result.is_valid

(***************************************************************************)
(* Properties of the probe stage and of its metadata policy (C12 - C18).   *)
(***************************************************************************)
\* the probe result has a stream of the given codec_type
HasStream(t) == \E i \in DOMAIN env.probe.streams : env.probe.streams[i] = t

\* the probe process exited 0 and wrote JSON
ProbeAnswered == ~env.probe.timeout /\ env.probe.returncode = 0 /\ env.probe.json_ok

\* durations of zero or less, as a string and as a number
NonPositiveDurations ==
    {StrDuration("0"), StrDuration("-1.0"), NumDuration(0), NumDuration(0 - 10)}

\* no duration, or one that is not a number
MissingDurations == {NoDuration, StrDuration("abc"), ObjDuration}

\* durations of 90000 s, above MAX_AUDIO_DURATION = 86400 s
LongDurations == {StrDuration("90000.0"), NumDuration(900000)}

\* C12: a probe result without audio and without video streams fails the
\* metadata validation with the single error "No audio or video streams found
\* in file", whatever its duration; is_valid stays false.
C12_NoStreamsRejected ==
    (Ran("metadata") /\ ~HasStream("audio") /\ ~HasStream("video")) =>
        /\ Failed("metadata")
        /\ result.errors = <<"No audio or video streams found in file">>
        /\ ~result.is_valid

C12_Witness ==
    /\ Ran("metadata")
    /\ env.probe.streams = <<"subtitle">>
    /\ env.probe.duration = StrDuration("180.5")
    /\ Failed("metadata")

C14_NonPositiveDurationRejected ==
    (Ran("metadata") /\ HasStream("audio")
     /\ env.probe.duration \in NonPositiveDurations) =>
        /\ Failed("metadata")
        /\ HasError("Invalid duration (<= 0 seconds)")
        /\ ~result.is_valid

\* the part of C15 that concerns _validate_audio_metadata alone: a missing or
\* unparsable duration yields one warning, no error, and success
DurationWarningOnly ==
    (Ran("metadata") /\ HasStream("audio")
     /\ env.probe.duration \in MissingDurations) =>
        /\ Passed("metadata")
        /\ Len(result.warnings) = 1
        /\ result.errors = <<>>

\* C15: with an audio stream and a missing or unparsable duration the probe
\* stage succeeds with exactly one warning and no error, and the call returns
\* is_valid = true when every other stage passed.
C15_MissingDurationWarningOnly ==
    (/\ pc = "done" /\ SizeWithinBounds /\ Passed("sniff")
     /\ env.presign.kind = "ok" /\ ProbeAnswered
     /\ HasStream("audio") /\ env.probe.duration \in MissingDurations) =>
        /\ Passed("probe")
        /\ Len(result.warnings) = 1
        /\ result.errors = <<>>
        /\ result.is_valid

\* C16: with an audio stream, a duration above MAX_AUDIO_DURATION is not
\* rejected: the metadata validation succeeds with the single "Very long audio
\* file" warning and no error, and the duration is stored.
C16_LongDurationWarned ==
    (Ran("metadata") /\ HasStream("audio") /\ env.probe.duration \in LongDurations) =>
        /\ Passed("metadata")
        /\ result.warnings =
              <<"Very long audio file: 90000.0s (max recommended: 86400s)">>
        /\ result.errors = <<>>
        /\ HasMetadata("duration") /\ result.metadata["duration"] = 900000

C16_Witness ==
    /\ Ran("metadata")
    /\ env.probe.streams = <<"audio", "video">>
    /\ env.probe.duration = StrDuration("90000.0")
    /\ Passed("metadata")

\* C17: when ffprobe exits non-zero, or exits 0 with output that is not JSON,
\* the probe stage fails with exactly one error, "FFprobe validation failed:
\* ..." or "Failed to parse ffprobe output: ...", and is_valid stays false.
C17_ProbeFailureReported ==
    (/\ Ran("probe") /\ env.presign.kind = "ok" /\ ~env.probe.timeout
     /\ (env.probe.returncode # 0 \/ ~env.probe.json_ok)) =>
        /\ Failed("probe")
        /\ result.errors =
              IF env.probe.returncode # 0
              THEN <<"FFprobe validation failed: " \o env.probe.stderr_error>>
              ELSE <<"Failed to parse ffprobe output: "
                        \o "Expecting value: line 1 column 1 (char 0)">>
        /\ ~result.is_valid

\* C18: when ffprobe has not finished after FFPROBE_TIMEOUT seconds it is
\* killed and the probe stage fails with the "timed out" error.
C18_ProbeTimeoutKills ==
    (Ran("probe") /\ env.presign.kind = "ok" /\ env.probe.timeout) =>
        /\ Failed("probe")
        /\ Called("kill")
        /\ result.errors = <<"FFprobe validation timed out after 30s">>

(***************************************************************************)
(* Properties of the transcode processors (C19, C20).                      *)
(***************************************************************************)
\* The async processor starts no process: _create_subprocess returns None
\* (ffmpeg_utils.py:367-369), so extract_audio and convert_audio_format end
\* in their "except Exception" before any wait.  The wait without a timeout
\* in the async _extract_output_metadata (ffmpeg_utils.py:603) is therefore
\* never executed.
AsyncStartsNoProcess ==
    (ff_pc # "idle" /\ ff_call[1].processor = "async") =>
        /\ invocations = <<>>
        /\ ~ff_result.success
        /\ ff_pc = "done"

SyncTimeoutReturns ==
    (ff_pc # "idle" /\ ff_call[1].processor = "sync" /\ ff_env.ffmpeg.kind = "hang") =>
        /\ ff_pc = "done"
        /\ ~ff_result.success
        /\ invocations = <<[tool |-> "ffmpeg", timeout |-> Some(FFMPEG_TIMEOUT)]>>

GeneratedPath ==
    _generate_output_path(ff_call[1].input_path, ff_call[1].format, ff_call[1].now)

\* ffmpeg exits 0 within the timeout
ExitsZero == ff_env.ffmpeg.kind = "exit" /\ ff_env.ffmpeg.returncode = 0

Succeeded ==
    /\ ff_result.success
    /\ ff_result.output_path = Some(GeneratedPath)
    /\ ff_result.error_message = None
    /\ GeneratedPath \in files

\* the sync processor returns the successful result when ffmpeg exits 0
SyncExitZeroSucceeds ==
    (ff_pc = "done" /\ ff_call[1].processor = "sync" /\ ExitsZero) => Succeeded

\* C21: when the tool exits 0 within the timeout, extract_audio and
\* convert_audio_format return success = true, output_path = the generated
\* output path and no error_message, and the output file is left in place.
C21_ExitZeroSucceeds ==
    (ff_pc = "done" /\ ExitsZero) => Succeeded

\* C22: whenever a transcode call returns success = false (non-zero exit,
\* timeout, unexpected exception), no file remains at the generated output
\* path.
C22_FailureLeavesNoFile ==
    (ff_pc = "done" /\ ~ff_result.success) => GeneratedPath \notin files

\* of the failure paths, the non-zero exit and the unstartable tool leave no
\* file at the output path
NonTimeoutFailureLeavesNoFile ==
    (ff_pc = "done" /\ ~ff_result.success /\ ff_env.ffmpeg.kind # "hang")
        => GeneratedPath \notin files

TimedOutMessage ==
    IF ff_call[1].op = "extract_audio"
    THEN "FFmpeg processing timed out after 300s"
    ELSE "Audio conversion timed out after 300s"

\* C23: when the transcode process has not finished after FFMPEG_TIMEOUT
\* (300 s) it is killed and the call returns success = false, no output_path
\* and an error_message that says "timed out".
C23_TimeoutReported ==
    (ff_pc # "idle" /\ ff_env.ffmpeg.kind = "hang") =>
        /\ ff_pc = "done"
        /\ ~ff_result.success
        /\ ff_result.output_path = None
        /\ ff_result.error_message = Some(TimedOutMessage)

\* the sync processor reports the timeout
SyncTimeoutReported ==
    (ff_pc # "idle" /\ ff_call[1].processor = "sync" /\ ff_env.ffmpeg.kind = "hang") =>
        /\ ff_pc = "done"
        /\ ~ff_result.success
        /\ ff_result.output_path = None
        /\ ff_result.error_message = Some(TimedOutMessage)

(***************************************************************************)
(* Properties of the cleanup methods (C24).                                *)
(***************************************************************************)
PathsOf(file_paths) == {file_paths[i] : i \in DOMAIN file_paths}

\* C24: cleanup_file and cleanup_files never raise; a path with no file is a
\* no-op; a file that can be deleted is gone afterwards and nothing else is
\* touched; a deletion that fails is logged, not raised, and cleanup_files
\* still hands every remaining path to cleanup_file; cleaning the same paths
\* a second time changes nothing more.
C24_CleanupIdempotentNeverRaises ==
    \A i \in DOMAIN cleanup.calls :
        LET c == cleanup.calls[i] IN
        /\ ~c.raised
        /\ c.attempted = c.paths
        /\ c.after = c.before \ (PathsOf(c.paths) \ cleanup.undeletable)
        /\ (PathsOf(c.paths) \cap c.before = {}) => (c.after = c.before /\ c.warnings = <<>>)
        /\ \A p \in PathsOf(c.paths) \cap c.before \cap cleanup.undeletable :
              p \in PathsOf(c.warnings)
        /\ (i > 1 /\ PathsOf(cleanup.calls[i - 1].paths) = PathsOf(c.paths))
              => c.after = c.before

\* C24 witness: cleanup_files was called twice with the same two paths; the
\* first path could not be deleted (one warning), the second was deleted all
\* the same, and the second call changed nothing.
C24_Witness ==
    /\ Len(cleanup.calls) = 2
    /\ cleanup.calls[1].fn = "cleanup_files"
    /\ cleanup.calls[2].fn = "cleanup_files"
    /\ cleanup.calls[1].paths = cleanup.calls[2].paths
    /\ LET c == cleanup.calls[1] IN
       /\ Len(c.paths) = 2
       /\ c.paths[1] \in c.before \cap cleanup.undeletable
       /\ c.paths[2] \in c.before \ cleanup.undeletable
       /\ c.warnings = <<c.paths[1]>>
       /\ c.paths[1] \in c.after
       /\ c.paths[2] \notin c.after
       /\ ~c.raised
    /\ cleanup.calls[2].after = cleanup.calls[1].after
    /\ ~cleanup.calls[2].raised

\* a cleanup_file call on a path with no file, and one on the empty path
CleanupFileMissingPath ==
    /\ Len(cleanup.calls) = 2
    /\ cleanup.calls[1].fn = "cleanup_file"
    /\ cleanup.calls[1].paths[1] \in CleanupPaths \ cleanup.calls[1].before
    /\ cleanup.calls[2].fn = "cleanup_file"
    /\ cleanup.calls[2].paths = <<EmptyPath>>

(***************************************************************************)
(* Properties of successive transcode calls (C26).                         *)
(***************************************************************************)
\* C26: two invocations of extract_audio or convert_audio_format, also for
\* different inputs that share the name stem and the format, never generate
\* the same output path, so that no invocation overwrites or deletes the
\* output of another.
C26_OutputPathsDistinct ==
    \A i, j \in DOMAIN returns :
        i < j =>
            /\ returns[i].path # returns[j].path
            /\ returns[i].result.success => returns[i].path \in files

\* two invocations generate the same path exactly when they agree on the
\* stem, the format and the millisecond read from the clock
SamePathIffSameMillisecond ==
    \A i, j \in DOMAIN returns :
        returns[i].path = returns[j].path
            <=> /\ returns[i].call.input_path.stem = returns[j].call.input_path.stem
                /\ returns[i].call.format = returns[j].call.format
                /\ returns[i].call.now = returns[j].call.now

\* an invocation deleted the output an earlier, successful invocation for
\* another input had returned
OutputOfAnotherRecordDeleted ==
    /\ Len(returns) = 2
    /\ returns[1].call.input_path # returns[2].call.input_path
    /\ returns[1].result.success
    /\ returns[1].result.output_path = Some(returns[2].path)
    /\ ~returns[2].result.success
    /\ returns[1].path \notin files

(***************************************************************************)
(* Properties of process_events (C28 - C30).                               *)
(***************************************************************************)
\* entry i of the records reports message i of the batch
ReportsMessage(entry, record) ==
    /\ entry.messageId = record.messageId
    /\ entry.body_length = record.body.len
    /\ entry.source = record.eventSourceARN

\* C28: process_events returns exactly one entry per input record, in input
\* order, with processed_count = the number of records (0 for an empty
\* batch); each entry, of a processed record or of a failed one, carries the
\* record's messageId, body_length = len(body) and source = eventSourceARN.
C28_OneEntryPerRecord ==
    /\ Len(processed_records) <= Len(batch)
    /\ \A i \in DOMAIN processed_records : ReportsMessage(processed_records[i], batch[i])
    /\ ev_pc = "done" =>
          /\ response # None
          /\ Len(response[1].records) = Len(batch)
          /\ response[1].processed_count = Len(batch)
          /\ \A i \in DOMAIN batch : ReportsMessage(response[1].records[i], batch[i])

\* C28 witness: a batch of a message that is no notification ("Test message
\* body") and one that is; two entries in that order, processed_count 2.
C28_Witness ==
    /\ ev_pc = "done"
    /\ Len(batch) = 2
    /\ batch[1].body = Body(17, FALSE, <<>>)
    /\ batch[2].body.parses /\ batch[2].body.Records # <<>>
    /\ response # None
    /\ response[1].processed_count = 2
    /\ response[1].records[1] =
          ProcessedRecord("test-message-id-1", FALSE, 17,
                          "arn:aws:sqs:us-east-1:123456789012:test-queue")
    /\ response[1].records[2].messageId = "test-message-id-2"
    /\ response[1].records[2].processed

\* the empty batch is answered with processed_count 0 and no entries
EmptyBatchAnswered ==
    /\ ev_pc = "done"
    /\ batch = <<>>
    /\ response = Some([status |-> "success", processed_count |-> 0, records |-> <<>>])

\* C29: the response status is "success" for every batch, also when some or
\* all of its records failed; a failure shows only in the processed flag of
\* the record's entry.
C29_StatusAlwaysSuccess ==
    ev_pc = "done" =>
        /\ response # None
        /\ response[1].status = "success"
        /\ \A i \in DOMAIN response[1].records :
              response[1].records[i].processed = batch[i].body.parses

\* C29 witness: every record of a batch of two failed and the status is
\* "success".
C29_Witness ==
    /\ ev_pc = "done"
    /\ Len(batch) = 2
    /\ \A i \in DOMAIN batch : ~batch[i].body.parses
    /\ response # None
    /\ response[1].status = "success"
    /\ \A i \in DOMAIN response[1].records : ~response[1].records[i].processed

Dispatches == fn_call # None /\ fn_call[1].fn = "_process_s3_record"
DispatchedRecord == fn_call[1].arg.s3_record
DispatchLog == fn_result[1].log
Did(act) == \E i \in DOMAIN DispatchLog : DispatchLog[i].act = act

\* the text of an event name up to and including its first colon
NamePrefix(n) ==
    CASE n \in {"ObjectCreated:Put", "ObjectCreated:Post", "ObjectCreated:Copy",
                "ObjectCreated:CompleteMultipartUpload", "ObjectCreated:Other"}
            -> "ObjectCreated:"
      [] n \in {"ObjectRemoved:Delete", "ObjectRemoved:DeleteMarkerCreated",
                "ObjectRemoved:Other"}
            -> "ObjectRemoved:"
      [] n \in {"ObjectRestore:Post", "ObjectRestore:Completed", "ObjectRestore:Delete"}
            -> "ObjectRestore:"
      [] n \in {"Replication:OperationFailedReplication",
                "Replication:OperationMissedThreshold",
                "Replication:OperationReplicatedAfterThreshold",
                "Replication:OperationNotTracked"}
            -> "Replication:"
      [] n = "s3:TestEvent" -> "s3:"
      [] OTHER -> ""

UnlistedCreatedNameUnhandled ==
    /\ Dispatches
    /\ DispatchedRecord = S3EventRecord("ObjectCreated:Other", <<"a", ".", "m", "p", "4">>)
    /\ DispatchLog = <<LogEntry("unhandled", DispatchedRecord, "", TRUE)>>

\* C32: the dispatcher filters storage records by media type before anything
\* else: for a record whose key has no supported media extension nothing is
\* done (no validation, storage call, subprocess or derivative deletion),
\* and the enclosing queue record is still reported processed = true.
C32_NonMediaRecordsSkipped ==
    \A i \in DOMAIN dispatched :
        /\ \A j \in DOMAIN dispatched[i] :
              ~is_audio_file(dispatched[i][j].key) => dispatched[i][j].act = "skip"
        /\ (/\ batch[i].body.parses
            /\ \A k \in DOMAIN batch[i].body.Records :
                  ~is_audio_file(batch[i].body.Records[k].key))
           => /\ processed_records[i].processed
              /\ dispatched[i] =
                    [k \in DOMAIN batch[i].body.Records |->
                        LogEntry("skip", batch[i].body.Records[k], "", TRUE)]

\* C32 witness: the upload of a text file was skipped and its queue record
\* reported processed.
C32_Witness ==
    /\ ev_pc = "done"
    /\ Len(batch) >= 1
    /\ batch[1].body.parses
    /\ batch[1].body.Records =
          <<S3EventRecord("ObjectCreated:Put", <<"a", ".", "t", "x", "t">>)>>
    /\ dispatched[1] = <<LogEntry("skip", batch[1].body.Records[1], "", TRUE)>>
    /\ response # None
    /\ response[1].records[1].processed

\* C40: for a removed-object event on a media-file key, delete_object is
\* attempted for processed/<key>.wav, processed/<key>.mp3 and
\* processed/<key>.flac, in that order, whether or not an earlier deletion
\* failed; no validation, download or subprocess is started for it.
C40_DerivativesDeletedInOrder ==
    (/\ Dispatches
     /\ is_audio_file(DispatchedRecord.key)
     /\ DispatchedRecord.eventName
           \in {"ObjectRemoved:Delete", "ObjectRemoved:DeleteMarkerCreated"})
    => /\ Len(DispatchLog) = 3
       /\ \A i \in 1..3 :
             DispatchLog[i] =
                LogEntry("delete_object", DispatchedRecord, <<"wav", "mp3", "flac">>[i],
                         <<"wav", "mp3", "flac">>[i] \notin fn_call[1].arg.henv.delete_fails)
       /\ ~fn_result[1].raises

\* C40 witness: the deletion of the wav derivative failed and the mp3 and
\* flac derivatives were deleted all the same.
C40_Witness ==
    /\ Dispatches
    /\ DispatchedRecord = S3EventRecord("ObjectRemoved:Delete", <<"a", ".", "m", "p", "4">>)
    /\ fn_call[1].arg.henv.delete_fails = {"wav"}
    /\ Len(DispatchLog) = 3
    /\ DispatchLog[1].format = "wav" /\ ~DispatchLog[1].ok
    /\ DispatchLog[2].format = "mp3" /\ DispatchLog[2].ok
    /\ DispatchLog[3].format = "flac" /\ DispatchLog[3].ok

(***************************************************************************)
(* Properties of the processed flag (C38).                                 *)
(***************************************************************************)
Handled(log, s3_record) ==
    \E j \in DOMAIN log :
        log[j].key = s3_record.key /\ log[j].eventName = s3_record.eventName

\* C38: a queue record is reported processed = false only when its body does
\* not parse as a storage-event notification: an is_valid = false verdict,
\* an exception inside the created-object handler or a failed derivative
\* deletion leaves the flag true and keeps no later storage record of the
\* same body from being handled.
C38_ProcessedFalseOnlyOnParseFailure ==
    \A i \in DOMAIN processed_records :
        /\ ~processed_records[i].processed => ~batch[i].body.parses
        /\ batch[i].body.parses =>
              /\ processed_records[i].processed
              /\ \A k \in DOMAIN batch[i].body.Records :
                    Handled(dispatched[i], batch[i].body.Records[k])

\* C38 witness: a body with an upload and a removal of a media file; the
\* validation verdict was is_valid = false, the deletion of the wav
\* derivative failed, both storage records were handled and the queue record
\* is reported processed.
C38_Witness ==
    /\ ev_pc = "done"
    /\ Len(batch) = 1
    /\ Len(batch[1].body.Records) = 2
    /\ ev_envs[1] = [validation |-> "invalid", delete_fails |-> {"wav"}]
    /\ Len(dispatched[1]) = 4
    /\ dispatched[1][1].act = "validate_audio_file"
    /\ dispatched[1][2].act = "delete_object" /\ ~dispatched[1][2].ok
    /\ dispatched[1][4].act = "delete_object" /\ dispatched[1][4].ok
    /\ response # None
    /\ response[1].records[1].processed

(***************************************************************************)
(* Properties of the media-type catalog (C33, C34).                        *)
(***************************************************************************)
CallsFn(fn) == fn_call # None /\ fn_call[1].fn = fn

\* the format names of the claim: eleven audio formats and eight video
\* containers
ClaimedAudioFormats ==
    {"mp3", "wav", "flac", "aac", "ogg", "m4a", "wma", "opus", "aiff", "au", "amr"}

ClaimedVideoFormats == {"mp4", "m4v", "avi", "mov", "mkv", "webm", "wmv", "3gp"}

\* the characters of "." + f for the format names of the claim
ExtensionChars(f) ==
    CASE f = "mp3" -> <<".", "m", "p", "3">>
      [] f = "wav" -> <<".", "w", "a", "v">>
      [] f = "flac" -> <<".", "f", "l", "a", "c">>
      [] f = "aac" -> <<".", "a", "a", "c">>
      [] f = "ogg" -> <<".", "o", "g", "g">>
      [] f = "m4a" -> <<".", "m", "4", "a">>
      [] f = "wma" -> <<".", "w", "m", "a">>
      [] f = "opus" -> <<".", "o", "p", "u", "s">>
      [] f = "aiff" -> <<".", "a", "i", "f", "f">>
      [] f = "au" -> <<".", "a", "u">>
      [] f = "amr" -> <<".", "a", "m", "r">>
      [] f = "mp4" -> <<".", "m", "p", "4">>
      [] f = "m4v" -> <<".", "m", "4", "v">>
      [] f = "avi" -> <<".", "a", "v", "i">>
      [] f = "mov" -> <<".", "m", "o", "v">>
      [] f = "mkv" -> <<".", "m", "k", "v">>
      [] f = "webm" -> <<".", "w", "e", "b", "m">>
      [] f = "wmv" -> <<".", "w", "m", "v">>
      [] f = "3gp" -> <<".", "3", "g", "p">>

\* C33: is_audio_file(key) is true exactly when the key ends, compared
\* case-insensitively, with a supported extension: "file.mp3.backup",
\* "audio.mp3/folder", "file.", "no_extension" and "" are false, a bare
\* ".mp3" is true, and the module-level is_audio_file agrees with
\* MediaTypes.is_audio_file on every key.
C33_IsAudioFileSuffix ==
    CallsFn("is_audio_file") =>
        LET key == fn_call[1].arg.object_key IN
        /\ fn_result[1].fn = fn_result[1].cls
        /\ fn_result[1].cls
              <=> \E ext \in get_supported_extensions : lower_endswith(key, Chars(ext))
        /\ key \in { <<"f", "i", "l", "e", ".", "m", "p", "3", ".", "b", "a", "c", "k", "u", "p">>, <<"a", "u", "d", "i", "o", ".", "m", "p", "3", "/", "f", "o", "l", "d", "e", "r">>, <<"f", "i", "l", "e", ".">>, <<"n", "o", "_", "e", "x", "t", "e", "n", "s", "i", "o", "n">>, <<>> }
              => ~fn_result[1].cls
        /\ key = <<".", "m", "p", "3">> => fn_result[1].cls

\* the same edge cases with an extension of the catalog: the suffix rule
\* holds, and the two functions agree
SuffixRuleOnCatalogExtensions ==
    CallsFn("is_audio_file") =>
        LET key == fn_call[1].arg.object_key IN
        /\ fn_result[1].fn = fn_result[1].cls
        /\ key \in { <<"f", "i", "l", "e", ".", "m", "p", "3", ".", "b", "a", "c", "k", "u", "p">>, <<"a", "u", "d", "i", "o", ".", "m", "p", "3", "/", "f", "o", "l", "d", "e", "r">>, <<"f", "i", "l", "e", ".">>, <<"n", "o", "_", "e", "x", "t", "e", "n", "s", "i", "o", "n">>, <<>>,
                     <<"f", "i", "l", "e", ".", "m", "p", "4", ".", "b", "a", "c", "k", "u", "p">>, <<"v", "i", "d", "e", "o", ".", "m", "p", "4", "/", "f", "o", "l", "d", "e", "r">> }
              => ~fn_result[1].cls
        /\ key \in { <<".", "m", "p", "4">>, <<"V", "I", "D", "E", "O", ".", "M", "P", "4">>, <<"M", "o", "v", "i", "e", ".", "M", "k", "V">> } => fn_result[1].cls

\* C34: the catalog supports the audio formats mp3, wav, flac, aac, ogg, m4a,
\* wma, opus, aiff, au, amr and the video formats mp4, m4v, avi, mov, mkv,
\* webm, wmv, 3gp: is_supported_format is true for each name in any letter
\* case, is_audio_file is true for every key ending in the matching
\* extension, every format name f has the extension "." + f, and there are
\* at least 15 formats.
C34_CatalogOfFormats ==
    /\ CallsFn("is_supported_format") =>
          (lower(fn_call[1].arg.format_name) \in ClaimedAudioFormats \cup ClaimedVideoFormats
              => fn_result[1].supported)
    /\ CallsFn("is_audio_file") =>
          ((\E f \in ClaimedAudioFormats \cup ClaimedVideoFormats :
               fn_call[1].arg.object_key = <<"a">> \o ExtensionChars(f))
              => fn_result[1].cls)
    /\ CallsFn("get_supported_format_names") =>
          /\ ClaimedAudioFormats \cup ClaimedVideoFormats \subseteq fn_result[1].names
          /\ \A f \in fn_result[1].names : fn_result[1].extensions[f] = "." \o f
          /\ Cardinality(fn_result[1].names) >= 15

\* the video half of the catalog is as claimed: the eight containers are
\* supported in any letter case, with the extension "." + f
VideoFormatsSupported ==
    /\ CallsFn("is_supported_format") =>
          (fn_result[1].supported <=> lower(fn_call[1].arg.format_name) \in ClaimedVideoFormats)
    /\ CallsFn("is_audio_file") =>
          ((\E f \in ClaimedVideoFormats : fn_call[1].arg.object_key = <<"a">> \o ExtensionChars(f))
              => fn_result[1].cls)
    /\ CallsFn("get_supported_format_names") =>
          /\ fn_result[1].names = ClaimedVideoFormats
          /\ \A f \in fn_result[1].names : fn_result[1].extensions[f] = "." \o f

(***************************************************************************)
(* Properties of the metadata policy and the content sniff (C35, C36).     *)
(***************************************************************************)
\* the probe result of the call has video streams and no audio stream
VideoOnlyProbe == Ran("metadata") /\ HasStream("video") /\ ~HasStream("audio")

EngineNotOk ==
    /\ Ran("sniff")
    /\ magika = "Magika"
    /\ env.body.kind = "ok"
    /\ ~env.magika.ok
    /\ ~env.close_raises

EngineNotOkAndCloseRaises ==
    /\ pc = "done"
    /\ Ran("sniff") /\ magika = "Magika" /\ env.body.kind = "ok"
    /\ ~env.magika.ok /\ env.close_raises
    /\ result.errors = <<"Magika analysis failed: analysis_failed",
                         "Unexpected validation error: close failed">>
    /\ ~Ran("probe")

\* ---- the extracted error message ----
ExtractCall == CallsFn("_extract_ffmpeg_error")

HasKeywordFor(cls, line) == KeywordsIn(line) \cap error_keywords(cls) # {}

MaxOf(S) == CHOOSE i \in S : \A j \in S : j <= i

\* the text with the blank lines at both ends removed, said without recursion
StrippedOf(t) ==
    LET nb == {i \in DOMAIN t : t[i] # ""} IN
    IF nb = {} THEN <<>>
    ELSE SubSeq(t, CHOOSE i \in nb : \A j \in nb : i <= j, MaxOf(nb))

\* the "Unknown FFmpeg error" messages
UnknownErrorMessages ==
    {"Unknown FFmpeg error (stderr is empty)", "Unknown FFmpeg error (no stderr content)",
     "Unknown FFmpeg error"}

ShortLastLineSkipped ==
    /\ ExtractCall
    /\ fn_call[1].arg.cls = "async"
    /\ fn_call[1].arg.stderr = <<"ffmpeg version 4.4.0", "done">>
    /\ fn_result[1].message = "ffmpeg version 4.4.0"

\* an upper-case keyword in the last five lines is matched
UpperCaseKeywordMatched ==
    /\ ExtractCall
    /\ fn_call[1].arg.stderr = <<"ffmpeg version 4.4.0", "Conversion FAILED!", "done">>
    /\ fn_result[1].message = "Conversion FAILED!"

\* ---- the two shapes of a transcode result ----
SuccessShape(r) == r.success /\ r.output_path # None /\ r.error_message = None
FailureShape(r) == ~r.success /\ r.output_path = None /\ r.error_message # None

\* the metadata probe of the output was started
MetadataProbeRan == \E i \in DOMAIN invocations : invocations[i].tool = "ffprobe"

\* the metadata probe failed: ffprobe timed out, could not be started, exited
\* non-zero or printed no JSON
MetadataProbeFailed ==
    /\ MetadataProbeRan
    /\ ~(ff_env.ffprobe.kind = "exit" /\ ff_env.ffprobe.returncode = 0
         /\ ff_env.ffprobe.json_ok)

\* C39: every result returned by extract_audio or convert_audio_format, async
\* or sync, has success = true with output_path set and error_message unset,
\* or success = false with output_path unset and error_message set; a failed
\* metadata probe of the output leaves the result successful.
C39_TwoResultShapes ==
    /\ \A i \in DOMAIN returns :
          SuccessShape(returns[i].result) \/ FailureShape(returns[i].result)
    /\ (ff_pc = "done" /\ MetadataProbeFailed)
          => (SuccessShape(ff_result) /\ ff_result.metadata = <<>>)

\* the sync processor's metadata probe times out after a successful ffmpeg run
C39_Witness ==
    /\ ff_pc = "done"
    /\ ff_call[1].processor = "sync"
    /\ MetadataProbeFailed
    /\ ff_env.ffprobe.kind = "hang"
    /\ SuccessShape(ff_result)

\* both shapes are returned
FailureShapeReturned ==
    /\ ff_pc = "done"
    /\ FailureShape(ff_result)
    /\ ff_env.ffmpeg.kind = "exit"
    /\ ff_env.ffmpeg.returncode # 0

====
